---- MODULE Spec2Model ----
(***************************************************************************)
(* Sentinel: relationship-graph construction and risk-scoring engine.      *)
(*                                                                         *)
(* The module models backend/risk/engine.py, backend/graph/builder.py,     *)
(* backend/data/synthetic.py and backend/main.py.  Every function of the   *)
(* source is an operator of the same name; the specifications of the       *)
(* functions draw the arguments of a call from bounded sets and the        *)
(* actions apply the functions to them; the specification of the           *)
(* application runs its startup on the dataset and then serves requests.   *)
(*                                                                         *)
(* Conventions                                                             *)
(*   Optional[T]   a sequence of length 0 (None) or 1 (the value)          *)
(*   date          a day number; (a - b).days is a - b                     *)
(*   float amount  a whole number of KES; the float arithmetic of the      *)
(*                 price rule is IEEE-754 binary64, computed bit by bit    *)
(*   dict          a function whose DOMAIN is the key set                  *)
(*   list          a sequence                                              *)
(*   a call        [raised |-> exception name or "", value |-> result]     *)
(***************************************************************************)
EXTENDS Integers, Sequences, FiniteSets, TLC

VARIABLES
    tender,           \* the Tender under evaluation
    companies,        \* dict[str, Company]
    directors,        \* dict[str, Director]
    officials,        \* dict[str, PublicOfficial]
    bids,             \* list[Bid]
    graph,            \* nx.Graph: [nodes, edges]
    cartel_clusters,  \* list[set[str]]
    all_tenders,      \* dict[str, Tender]
    min_co_bids,      \* threshold argument of find_cartel_clusters
    risk_factors,     \* list[RiskFactor] argument of generate_recommendation
    risk_category,    \* RiskCategory argument of generate_recommendation
    DATA_STORE,       \* main.py global: the maps and the bid list, {} at import
    GRAPH,            \* main.py global: Optional nx.Graph, None at import
    RISK_SCORES,      \* main.py global: dict[str, RiskScore], {} at import
    pc,               \* "ready" before a call, then the name of the function called
    ret               \* the outcome of the call

vars == <<tender, companies, directors, officials, bids, graph,
          cartel_clusters, all_tenders, min_co_bids, risk_factors, risk_category,
          DATA_STORE, GRAPH, RISK_SCORES, pc, ret>>

\* the module globals of main.py
globals == <<DATA_STORE, GRAPH, RISK_SCORES>>

----------------------------------------------------------------------------
(* Python values *)

None == <<>>

Some(x) == <<x>>

\* truthiness of an Optional[str] / Optional[float] / float field
Truthy(opt, zero) == opt # None /\ opt[1] # zero

Min(a, b) == IF a <= b THEN a ELSE b

Range(s) == {s[i] : i \in DOMAIN s}

\* A Python dict keeps its keys in the order they were inserted in: a dict is
\* [keys |-> the keys in that order, at |-> the value at each key].
EmptyDict == [keys |-> <<>>, at |-> [x \in {} |-> None]]

\* the keys as a set: "k in d" is k \in KeySet(d)
KeySet(d) == Range(d.keys)

\* list(d)
Keys(d) == d.keys

\* list(d.values())
Values(d) == [i \in DOMAIN d.keys |-> d.at[d.keys[i]]]

\* d[k] = v on a dict: a new key goes to the end, a key that is there keeps
\* its place
Put(d, k, v) ==
    [keys |-> IF k \in KeySet(d) THEN d.keys ELSE Append(d.keys, k),
     at |-> [x \in KeySet(d) \cup {k} |-> IF x = k THEN v ELSE d.at[x]]]

\* dict.get(key): Optional
Get(d, key) == IF key \in KeySet(d) THEN Some(d.at[key]) ELSE None

\* {k: f[k] for k in order if k in f}: the dict filled from the mapping f in
\* the order of the list order
DictOf(order, f) ==
    LET keys == SelectSeq(order, LAMBDA k : k \in DOMAIN f)
    IN [keys |-> keys, at |-> [k \in Range(keys) |-> f[k]]]

\* The outcome of a call: the name of the exception it raised, or "" and the
\* value it returned.  value is a sequence: the list returned by
\* find_cartel_clusters, else None or Some(the object returned).
Returned(v) == [raised |-> "", value |-> v]

Raised(e) == [raised |-> e, value |-> None]

----------------------------------------------------------------------------
(* models.py enums *)

HIGH == "HIGH"
MEDIUM == "MEDIUM"
LOW == "LOW"

CONFLICT_OF_INTEREST == "CONFLICT_OF_INTEREST"
CARTEL_PATTERN == "CARTEL_PATTERN"
SHELL_COMPANY == "SHELL_COMPANY"
PRICE_ANOMALY == "PRICE_ANOMALY"
RUSHED_TIMELINE == "RUSHED_TIMELINE"

RiskFactorType == {CONFLICT_OF_INTEREST, CARTEL_PATTERN, SHELL_COMPANY,
                   PRICE_ANOMALY, RUSHED_TIMELINE}

RelationshipType == {"SIBLING", "SPOUSE", "PARENT_CHILD", "BUSINESS_PARTNER"}

TenderStatus == {"OPEN", "EVALUATION", "AWARDED", "CANCELLED"}

\* relationship.value.lower().replace('_', ' ')
RelationshipText(kind) ==
    CASE kind = "SIBLING" -> "sibling"
      [] kind = "SPOUSE" -> "spouse"
      [] kind = "PARENT_CHILD" -> "parent child"
      [] kind = "BUSINESS_PARTNER" -> "business partner"

\* RISK_WEIGHTS
WEIGHT_CONFLICT_OF_INTEREST == 30
WEIGHT_CARTEL_PATTERN == 25
WEIGHT_SHELL_COMPANY == 20
WEIGHT_PRICE_ANOMALY == 15
WEIGHT_RUSHED_TIMELINE == 10

\* faulty variant of RISK_WEIGHTS: the cartel pattern weighs 30
RISK_WEIGHTS_HeavyCartel(type) ==
    CASE type = CONFLICT_OF_INTEREST -> WEIGHT_CONFLICT_OF_INTEREST
      [] type = CARTEL_PATTERN -> WEIGHT_CONFLICT_OF_INTEREST
      [] type = SHELL_COMPANY -> WEIGHT_SHELL_COMPANY
      [] type = PRICE_ANOMALY -> WEIGHT_PRICE_ANOMALY
      [] type = RUSHED_TIMELINE -> WEIGHT_RUSHED_TIMELINE

\* faulty variant of RISK_WEIGHTS: the rushed timeline weighs 20
RISK_WEIGHTS_HeavyTimeline(type) ==
    CASE type = CONFLICT_OF_INTEREST -> WEIGHT_CONFLICT_OF_INTEREST
      [] type = CARTEL_PATTERN -> WEIGHT_CARTEL_PATTERN
      [] type = SHELL_COMPANY -> WEIGHT_SHELL_COMPANY
      [] type = PRICE_ANOMALY -> WEIGHT_PRICE_ANOMALY
      [] type = RUSHED_TIMELINE -> WEIGHT_SHELL_COMPANY

RISK_WEIGHTS(type) ==
    CASE type = CONFLICT_OF_INTEREST -> WEIGHT_CONFLICT_OF_INTEREST
      [] type = CARTEL_PATTERN -> WEIGHT_CARTEL_PATTERN
      [] type = SHELL_COMPANY -> WEIGHT_SHELL_COMPANY
      [] type = PRICE_ANOMALY -> WEIGHT_PRICE_ANOMALY
      [] type = RUSHED_TIMELINE -> WEIGHT_RUSHED_TIMELINE

\* models.py RiskFactor; description and evidence hold the values the
\* source formats into the strings, not the strings
RiskFactor(type, description, weight, evidence, related_entity_ids) ==
    [type |-> type, description |-> description, weight |-> weight,
     evidence |-> evidence, related_entity_ids |-> related_entity_ids]

----------------------------------------------------------------------------
(* Python float arithmetic of check_price_anomaly: IEEE-754 binary64,      *)
(* round to nearest, ties to even.  The 52 fraction bits of a significand  *)
(* are kept as four 13-bit limbs, most significant first, so that every    *)
(* intermediate value fits a 32-bit integer.  A positive float is          *)
(*     [exp |-> k, frac |-> <<l1, l2, l3, l4>>]                            *)
(* with value 2^k * (1 + l1/B + l2/B^2 + l3/B^3 + l4/B^4), B = LIMB.       *)
(* The operators are exact for fractions that reduce to terms below 2^17.  *)

\* the base of a limb: 13 bits
LIMB == 2 ^ 13

RECURSIVE Pow2(_)
Pow2(n) == IF n = 0 THEN 1 ELSE 2 * Pow2(n - 1)

\* the k with 2^k <= a/d < 2^(k+1), searched upwards or downwards from k
RECURSIVE FloorLog2Ratio(_, _, _)
FloorLog2Ratio(a, d, k) ==
    IF k >= 0 /\ a >= 2 * d * Pow2(k) THEN FloorLog2Ratio(a, d, k + 1)
    ELSE IF k <= 0 /\ a * Pow2(-k) < d THEN FloorLog2Ratio(a, d, k - 1)
    ELSE k

\* number of binary digits of n
RECURSIVE BitLength(_)
BitLength(n) == IF n = 0 THEN 0 ELSE 1 + BitLength(n \div 2)

\* the fraction limbs plus one unit in the last place; <<>> when that carries
\* out of the fraction
IncrementLimbs(f) ==
    IF f[4] < LIMB - 1 THEN <<f[1], f[2], f[3], f[4] + 1>>
    ELSE IF f[3] < LIMB - 1 THEN <<f[1], f[2], f[3] + 1, 0>>
    ELSE IF f[2] < LIMB - 1 THEN <<f[1], f[2] + 1, 0, 0>>
    ELSE IF f[1] < LIMB - 1 THEN <<f[1] + 1, 0, 0, 0>>
    ELSE <<>>

\* greatest common divisor of two positive whole numbers
RECURSIVE GCD(_, _)
GCD(a, b) == IF b = 0 THEN a ELSE GCD(b, a % b)

\* a / d for positive whole a and d, correctly rounded.  The quotient of two
\* whole floats depends on their ratio only, so the fraction is reduced
\* first, which keeps the amounts of the dataset within the exact range.
FloatDiv(a, d) ==
    LET p == a \div GCD(a, d)
        q == d \div GCD(a, d)
        k == FloorLog2Ratio(p, q, 0)
        n == IF k >= 0 THEN p ELSE p * Pow2(-k)
        den == IF k >= 0 THEN q * Pow2(k) ELSE q
        r0 == n - den
        r1 == (r0 * LIMB) % den
        r2 == (r1 * LIMB) % den
        r3 == (r2 * LIMB) % den
        r4 == (r3 * LIMB) % den
        raw == <<(r0 * LIMB) \div den, (r1 * LIMB) \div den,
                 (r2 * LIMB) \div den, (r3 * LIMB) \div den>>
        guard == 2 * r4 >= den
        sticky == ((2 * r4) % den) # 0
        up == guard /\ (sticky \/ (raw[4] % 2) = 1)
    IN IF ~up THEN [exp |-> k, frac |-> raw]
       ELSE IF IncrementLimbs(raw) = <<>>
            THEN [exp |-> k + 1, frac |-> <<0, 0, 0, 0>>]
            ELSE [exp |-> k, frac |-> IncrementLimbs(raw)]

\* x > 1.5
FloatGreaterThanOneAndAHalf(x) ==
    \/ x.exp >= 1
    \/ /\ x.exp = 0
       /\ \/ x.frac[1] > LIMB \div 2
          \/ x.frac[1] = LIMB \div 2 /\ x.frac # <<LIMB \div 2, 0, 0, 0>>

\* x - 1.0 for a float x >= 1, which is exact.  The result is in fixed point:
\* [int, frac] is int + frac[1]/B + ... + frac[4]/B^4.
FloatMinusOne(x) ==
    LET scale == Pow2(x.exp)
        t4 == x.frac[4] * scale
        t3 == x.frac[3] * scale + (t4 \div LIMB)
        t2 == x.frac[2] * scale + (t3 \div LIMB)
        t1 == x.frac[1] * scale + (t2 \div LIMB)
    IN [int |-> scale + (t1 \div LIMB) - 1,
        frac |-> <<t1 % LIMB, t2 % LIMB, t3 % LIMB, t4 % LIMB>>]

\* int(y * 100) for the fixed-point y > 0: the exact product is rounded to 53
\* significant bits and then truncated towards zero
IntOfTimes100(y) ==
    LET p4 == 100 * y.frac[4]
        p3 == 100 * y.frac[3] + (p4 \div LIMB)
        p2 == 100 * y.frac[2] + (p3 \div LIMB)
        p1 == 100 * y.frac[1] + (p2 \div LIMB)
        whole == 100 * y.int + (p1 \div LIMB)
        \* the product has BitLength(whole) + 52 bits: the lowest `drop` go
        drop == BitLength(whole) - 1
        low == (p3 % LIMB) * LIMB + (p4 % LIMB)
        kept == low \div Pow2(drop)
        guard == (low \div Pow2(drop - 1)) % 2 = 1
        sticky == (low % Pow2(drop - 1)) # 0
        up == drop >= 1 /\ guard /\ (sticky \/ (kept % 2) = 1)
        carries == /\ kept = ((LIMB * LIMB) \div Pow2(drop)) - 1
                   /\ (p2 % LIMB) = LIMB - 1
                   /\ (p1 % LIMB) = LIMB - 1
    IN IF up /\ carries THEN whole + 1 ELSE whole

----------------------------------------------------------------------------
(* networkx.Graph as the source uses it: nodes and adjacency keep          *)
(* insertion order, which decides the order of a breadth-first search.     *)
(* A graph is [nodes |-> sequence of node ids, adj |-> node id -> sequence *)
(* of neighbours].                                                         *)

\* The member of a set of one.  The({Body(v) : v \in {value}}) is Body(value)
\* with value evaluated once and named v.
The(S) == CHOOSE x \in S : TRUE

\* the members of DOMAIN key in increasing order of key, which is one-to-one
SortedBy(key) ==
    [k \in 1..Cardinality(DOMAIN key) |->
        CHOOSE x \in DOMAIN key :
            Cardinality({y \in DOMAIN key : key[y] < key[x]}) = k - 1]

\* The graph built by a sequence of calls, <<n>> for G.add_node(n) and
\* <<u, v>> for G.add_edge(u, v): a node is inserted by the first call that
\* names it, a neighbour by the first edge that joins it.
GraphOf(calls) ==
    LET names == UNION {Range(calls[i]) : i \in DOMAIN calls}
        FirstCall(n) ==
            CHOOSE i \in DOMAIN calls :
                /\ n \in Range(calls[i])
                /\ \A j \in DOMAIN calls : n \in Range(calls[j]) => i <= j
        \* within one add_edge(u, v) call u is inserted before v
        NodeKey(n) == 2 * FirstCall(n) + (IF calls[FirstCall(n)][1] = n THEN 0 ELSE 1)
        Joins(i, n, m) == Len(calls[i]) = 2 /\ Range(calls[i]) = {n, m}
        Neighbours(n) == {m \in names : \E i \in DOMAIN calls : Joins(i, n, m)}
    IN [nodes |-> SortedBy([n \in names |-> NodeKey(n)]),
        adj |-> [n \in names |->
                    SortedBy([m \in Neighbours(n) |->
                                 CHOOSE i \in DOMAIN calls :
                                     /\ Joins(i, n, m)
                                     /\ \A j \in DOMAIN calls :
                                            Joins(j, n, m) => i <= j])]]

HasNode(G, n) == n \in DOMAIN G.adj

HasEdge(G, u, v) == HasNode(G, u) /\ v \in Range(G.adj[u])

Nodes(G) == DOMAIN G.adj

----------------------------------------------------------------------------
(* nx.shortest_path(G, source, target): networkx's bidirectional           *)
(* breadth-first search (bidirectional_shortest_path).                     *)

\* one step of "for v in this_level: for w in G.adj[v]" on the search state
\* [mine, other, fringe, found]: mine is the dict being grown (pred when
\* searching forward, succ when backward), other the opposite dict.  The loop
\* ends at the first w that the opposite search has reached.
Visit(st, v, w) ==
    IF st.found # None THEN st
    ELSE LET fresh == w \notin KeySet(st.mine)
         IN [mine |-> IF fresh THEN Put(st.mine, w, Some(v)) ELSE st.mine,
             other |-> st.other,
             fringe |-> IF fresh THEN Append(st.fringe, w) ELSE st.fringe,
             found |-> IF w \in KeySet(st.other) THEN Some(w) ELSE None]

\* "for w in G.adj[v]" over the neighbours ws still to visit
RECURSIVE ExpandNode(_, _, _)
ExpandNode(st, v, ws) ==
    IF ws = <<>> THEN st
    ELSE The({ExpandNode(next, v, rest) :
                 next \in {Visit(st, v, Head(ws))}, rest \in {Tail(ws)}})

\* "for v in this_level" over the nodes vs still to expand
RECURSIVE ExpandNodes(_, _, _)
ExpandNodes(G, st, vs) ==
    IF vs = <<>> THEN st
    ELSE The({ExpandNodes(G, next, rest) :
                 next \in {ExpandNode(st, Head(vs), G.adj[Head(vs)])},
                 rest \in {Tail(vs)}})

ExpandLevel(G, this_level, mine, other) ==
    ExpandNodes(G, [mine |-> mine, other |-> other, fringe |-> <<>>,
                    found |-> None], this_level)

\* _bidirectional_pred_succ: <<pred, succ, w>> in a Some, or None for
\* NetworkXNoPath
RECURSIVE BidirectionalSearch(_, _, _, _, _)
BidirectionalSearch(G, pred, succ, forward_fringe, reverse_fringe) ==
    IF forward_fringe = <<>> \/ reverse_fringe = <<>> THEN None
    ELSE IF Len(forward_fringe) <= Len(reverse_fringe)
    THEN The({IF r.found # None
              THEN Some(<<r.mine, succ, r.found[1]>>)
              ELSE BidirectionalSearch(G, r.mine, succ, r.fringe, reverse_fringe) :
                 r \in {ExpandLevel(G, forward_fringe, pred, succ)}})
    ELSE The({IF r.found # None
              THEN Some(<<pred, r.mine, r.found[1]>>)
              ELSE BidirectionalSearch(G, pred, r.mine, forward_fringe, r.fringe) :
                 r \in {ExpandLevel(G, reverse_fringe, succ, pred)}})

\* w, link[w], link[link[w]], ... up to the end of the chain
RECURSIVE Chain(_, _)
Chain(link, w) ==
    IF link.at[w] = None THEN <<w>> ELSE <<w>> \o Chain(link, link.at[w][1])

\* faulty variant of Reverse: the chain of predecessors is left as it was
\* collected, from the meeting node back to the source
NotReversed(s) == s

\* path.reverse()
Reverse(s) == [i \in 1..Len(s) |-> s[Len(s) + 1 - i]]

bidirectional_pred_succ(G, source, target) ==
    IF target = source
    THEN Some(<<Put(EmptyDict, target, None), Put(EmptyDict, source, None), source>>)
    ELSE BidirectionalSearch(G, Put(EmptyDict, source, None),
                             Put(EmptyDict, target, None), <<source>>, <<target>>)

shortest_path(G, source, target) ==
    IF ~HasNode(G, source) \/ ~HasNode(G, target) THEN Raised("NodeNotFound")
    ELSE The({IF results = None THEN Raised("NetworkXNoPath")
              ELSE Returned(Reverse(Chain(results[1][1], results[1][3]))
                            \o Tail(Chain(results[1][2], results[1][3]))) :
                 results \in {bidirectional_pred_succ(G, source, target)}})

\* builder.py find_conflict_path: only NetworkXNoPath is caught
find_conflict_path(G, company_id, official_id) ==
    The({IF call.raised = "" THEN Returned(Some(call.value))
         ELSE IF call.raised = "NetworkXNoPath" THEN Returned(None)
         ELSE call :
            call \in {shortest_path(G, company_id, official_id)}})

----------------------------------------------------------------------------
(* risk/engine.py: the five rules.  Each returns an Optional[RiskFactor]   *)
(* (check_conflict_of_interest as the outcome of a call, because the path  *)
(* search can raise).                                                      *)

\* faulty variant of FirstRelatedDirector: only the first director is looked up
OnlyFirstDirector(director_ids, related_persons) ==
    IF director_ids # <<>> /\ director_ids[1] \in KeySet(related_persons)
    THEN 1 ELSE 0

\* index of the first director of the winner found in related_persons, or 0
FirstRelatedDirector(director_ids, related_persons) ==
    LET hits == {i \in DOMAIN director_ids :
                    director_ids[i] \in KeySet(related_persons)}
    IN IF hits = {} THEN 0
       ELSE CHOOSE i \in hits : \A j \in hits : i <= j

\* faulty variant of WithinThreeHops: the bound of 3 is put on the nodes
WithinThreeNodes(path) == Len(path) <= 3

\* "len(path) <= 4": within 3 hops
WithinThreeHops(path) == Len(path) <= 4

check_conflict_of_interest(tender_, winner, directors_, officials_, graph_) ==
    IF winner = None \/ ~Truthy(tender_.procurement_officer_id, "")
    THEN Returned(None)
    ELSE LET official == Get(officials_, tender_.procurement_officer_id[1])
         IN IF official = None THEN Returned(None)
            ELSE
            LET hit == FirstRelatedDirector(winner[1].director_ids,
                                            official[1].related_persons)
            IN IF hit # 0
               THEN LET director_id == winner[1].director_ids[hit]
                        relationship == official[1].related_persons.at[director_id]
                    IN Returned(Some(RiskFactor(
                           CONFLICT_OF_INTEREST,
                           [kind |-> "direct",
                            director_known |-> director_id \in KeySet(directors_),
                            relationship |-> RelationshipText(relationship),
                            official |-> official[1].id],
                           RISK_WEIGHTS(CONFLICT_OF_INTEREST),
                           [director |-> director_id,
                            official |-> official[1].id,
                            relationship |-> relationship],
                           <<director_id, official[1].id, winner[1].id>>)))
               ELSE
               The({IF call.raised # "" THEN call
                    ELSE IF /\ call.value # None
                            /\ call.value[1] # <<>>
                            /\ WithinThreeHops(call.value[1])
                    THEN Returned(Some(RiskFactor(
                             CONFLICT_OF_INTEREST,
                             [kind |-> "path"],
                             RISK_WEIGHTS(CONFLICT_OF_INTEREST) - 10,
                             [path |-> call.value[1],
                              path_length |-> Len(call.value[1]) - 1],
                             call.value[1])))
                    ELSE Returned(None) :
                       call \in {find_conflict_path(
                                     graph_, winner[1].id,
                                     tender_.procurement_officer_id[1])}})

\* faulty variant of FirstCartel: the last qualifying cluster is taken
LastCartel(bidding_company_ids, cartel_clusters_) ==
    LET hits == {i \in DOMAIN cartel_clusters_ :
                    Cardinality(bidding_company_ids \cap cartel_clusters_[i]) >= 3}
    IN IF hits = {} THEN 0
       ELSE CHOOSE i \in hits : \A j \in hits : i >= j

\* index of the first cluster sharing at least 3 members with the bidders, or 0
FirstCartel(bidding_company_ids, cartel_clusters_) ==
    LET hits == {i \in DOMAIN cartel_clusters_ :
                    Cardinality(bidding_company_ids \cap cartel_clusters_[i]) >= 3}
    IN IF hits = {} THEN 0
       ELSE CHOOSE i \in hits : \A j \in hits : i <= j

\* related_entity_ids is list(overlap): its order is the iteration order of a
\* Python set of strings, so the model keeps the set
check_cartel_pattern(tender_, tender_bids, companies_, cartel_clusters_) ==
    LET bidding_company_ids == {tender_bids[i].company_id : i \in DOMAIN tender_bids}
        hit == FirstCartel(bidding_company_ids, cartel_clusters_)
    IN IF hit = 0 THEN None
       ELSE LET cartel == cartel_clusters_[hit]
                overlap == bidding_company_ids \cap cartel
            IN Some(RiskFactor(
                   CARTEL_PATTERN,
                   [members |-> Cardinality(overlap)],
                   RISK_WEIGHTS(CARTEL_PATTERN),
                   [named |-> {cid \in overlap : cid \in KeySet(companies_)},
                    cartel_size |-> Cardinality(cartel)],
                   overlap))

\* faulty variant of SevereAge: day 30 is still severe
SevereAgeInclusive(company_age_days) == company_age_days <= 30

\* "company_age_days < 30": the severe band
SevereAge(company_age_days) == company_age_days < 30

\* "company_age_days < 90": the band of new companies
NewAge(company_age_days) == company_age_days < 90

check_shell_company(tender_, winner) ==
    IF winner = None THEN None
    ELSE LET company_age_days == tender_.deadline - winner[1].registration_date
         IN IF SevereAge(company_age_days)
            THEN Some(RiskFactor(
                     SHELL_COMPANY,
                     [days |-> company_age_days],
                     RISK_WEIGHTS(SHELL_COMPANY),
                     [company |-> winner[1].id,
                      registration_date |-> winner[1].registration_date,
                      deadline |-> tender_.deadline,
                      age |-> company_age_days,
                      contract_value |->
                          IF Truthy(tender_.awarded_amount, 0)
                          THEN tender_.awarded_amount ELSE None],
                     <<winner[1].id>>))
            ELSE IF NewAge(company_age_days)
            THEN Some(RiskFactor(
                     SHELL_COMPANY,
                     [days |-> company_age_days],
                     RISK_WEIGHTS(SHELL_COMPANY) \div 2,
                     [company |-> winner[1].id,
                      registration_date |-> winner[1].registration_date,
                      deadline |-> tender_.deadline,
                      age |-> company_age_days],
                     <<winner[1].id>>))
            ELSE None

\* sum(t.awarded_amount for t in comparable) over the list comparable
RECURSIVE SumAwarded(_)
SumAwarded(ts) ==
    IF ts = <<>> THEN 0
    ELSE Head(ts).awarded_amount[1] + SumAwarded(Tail(ts))

\* The amounts are whole numbers.  avg_comparable is sum/len and the test is
\* awarded_amount > avg_comparable * 1.5, both in floats.  Each rounding is
\* off by less than 2^-52 of the value, and the exact 1.5 * sum / len is
\* either awarded_amount itself (the rounded product is then awarded_amount
\* too) or at least 1/(2 * len) away from it, so for 3 * sum below 2^52 the
\* test is 2 * len * awarded_amount > 3 * sum.  comparable is a list: a
\* tender that is the value of two keys counts twice.
check_price_anomaly(tender_, all_tenders_) ==
    IF ~Truthy(tender_.awarded_amount, 0) \/ tender_.estimated_value = 0
    THEN None
    ELSE LET price_ratio == FloatDiv(tender_.awarded_amount[1],
                                     tender_.estimated_value)
         IN IF FloatGreaterThanOneAndAHalf(price_ratio)
            THEN LET percentage == IntOfTimes100(FloatMinusOne(price_ratio))
                     comparable ==
                         SelectSeq(Values(all_tenders_),
                                   LAMBDA t : /\ t.id # tender_.id
                                              /\ t.category = tender_.category
                                              /\ Truthy(t.awarded_amount, 0)
                                              /\ t.status = "AWARDED")
                     total == SumAwarded(comparable)
                     noted == /\ comparable # <<>>
                              /\ 2 * Len(comparable)
                                     * tender_.awarded_amount[1] > 3 * total
                 IN Some(RiskFactor(
                        PRICE_ANOMALY,
                        [percentage |-> percentage],
                        RISK_WEIGHTS(PRICE_ANOMALY),
                        [awarded_amount |-> tender_.awarded_amount[1],
                         estimated_value |-> tender_.estimated_value,
                         deviation |-> percentage,
                         category_average |->
                             IF noted
                             THEN Some([sum |-> total,
                                        count |-> Len(comparable)])
                             ELSE None],
                        <<tender_.id>>))
            ELSE None

\* faulty variant of VeryShortWindow: day 5 is not very short
VeryShortWindowExclusive(submission_window) == submission_window < 5

\* "submission_window <= 5"
VeryShortWindow(submission_window) == submission_window <= 5

\* faulty variant of ShortWindow: day 7 is no longer short
ShortWindowExclusive(submission_window) == submission_window < 7

\* "submission_window <= 7"
ShortWindow(submission_window) == submission_window <= 7

check_rushed_timeline(tender_) ==
    LET submission_window == tender_.deadline - tender_.published_date
    IN IF VeryShortWindow(submission_window)
       THEN Some(RiskFactor(
                RUSHED_TIMELINE,
                [window |-> submission_window, wording |-> "only"],
                RISK_WEIGHTS(RUSHED_TIMELINE),
                [published |-> tender_.published_date,
                 deadline |-> tender_.deadline,
                 window |-> submission_window,
                 standard_note |-> TRUE],
                <<tender_.id>>))
       ELSE IF ShortWindow(submission_window)
       THEN Some(RiskFactor(
                RUSHED_TIMELINE,
                [window |-> submission_window, wording |-> "short"],
                RISK_WEIGHTS(RUSHED_TIMELINE) \div 2,
                [published |-> tender_.published_date,
                 deadline |-> tender_.deadline,
                 window |-> submission_window,
                 standard_note |-> FALSE],
                <<tender_.id>>))
       ELSE None

----------------------------------------------------------------------------
(* risk/engine.py: aggregation *)

\* faulty variant of SumOfWeights: the first factor is left out of the sum
RECURSIVE SumOfLaterWeights(_)
SumOfLaterWeights(factors) ==
    IF Len(factors) <= 1 THEN 0
    ELSE factors[2].weight + SumOfLaterWeights(Tail(factors))

RECURSIVE SumOfWeights(_)
SumOfWeights(factors) ==
    IF factors = <<>> THEN 0 ELSE factors[1].weight + SumOfWeights(Tail(factors))

SCORE_CAP == 100
HIGH_THRESHOLD == 50
MEDIUM_THRESHOLD == 25

\* faulty variant of CategoryOf: the thresholds themselves fall in the lower
\* category
CategoryOfAbove(overall) ==
    IF overall > HIGH_THRESHOLD THEN HIGH
    ELSE IF overall > MEDIUM_THRESHOLD THEN MEDIUM
    ELSE LOW

\* lines 79-85 of compute_risk_score
CategoryOf(overall) ==
    IF overall >= HIGH_THRESHOLD THEN HIGH
    ELSE IF overall >= MEDIUM_THRESHOLD THEN MEDIUM
    ELSE LOW

Sentence(type) ==
    CASE type = CONFLICT_OF_INTEREST ->
             "Request conflict of interest declarations from all parties"
      [] type = CARTEL_PATTERN ->
             "Review bidding patterns across related tenders"
      [] type = SHELL_COMPANY ->
             "Verify company credentials and track record"
      [] type = PRICE_ANOMALY ->
             "Conduct market price verification"
      [] type = RUSHED_TIMELINE ->
             "Review justification for expedited timeline"

\* faulty variant of Unique: repeated sentences are kept
NotDeduplicated(s) == s

\* list(dict.fromkeys(s)): first occurrences, in order
Unique(s) ==
    LET first == {i \in DOMAIN s : \A j \in 1..(i - 1) : s[j] # s[i]}
        order == SortedBy([i \in first |-> i])
    IN [k \in DOMAIN order |-> s[order[k]]]

\* sep.join(s)
RECURSIVE Join(_, _)
Join(sep, s) ==
    IF s = <<>> THEN ""
    ELSE IF Len(s) = 1 THEN s[1]
    ELSE s[1] \o sep \o Join(sep, Tail(s))

\* the separator of the recommendation; the source writes a bullet (U+2022)
\* between the two blanks, which a module cannot contain
SEPARATOR == " * "

generate_recommendation(factors, category) ==
    IF category = LOW
    THEN "No immediate action required. Routine monitoring recommended."
    ELSE LET advice == [i \in 1..Len(factors) |-> Sentence(factors[i].type)]
             recommendations ==
                 IF category = HIGH
                 THEN advice \o
                      <<"Escalate to Internal Audit for immediate review",
                        "Consider freezing payment pending investigation">>
                 ELSE advice
         IN Join(SEPARATOR, Unique(recommendations))

RiskScore(overall, category, factors, recommendation) ==
    [overall |-> overall, category |-> category, factors |-> factors,
     recommendation |-> recommendation]

\* overall, category and recommendation of a list of factors (lines 75-95)
ScoreOf(factors) ==
    RiskScore(Min(SumOfWeights(factors), SCORE_CAP),
              CategoryOf(Min(SumOfWeights(factors), SCORE_CAP)),
              factors,
              generate_recommendation(
                  factors, CategoryOf(Min(SumOfWeights(factors), SCORE_CAP))))

compute_risk_score(tender_, companies_, directors_, officials_, bids_, graph_, cartel_clusters_, all_tenders_) ==
    LET winner == IF Truthy(tender_.awarded_to, "")
                  THEN Get(companies_, tender_.awarded_to[1]) ELSE None
        tender_bids == SelectSeq(bids_, LAMBDA b : b.tender_id = tender_.id)
    IN The({IF coi_call.raised # "" THEN coi_call
            ELSE The({Returned(Some(ScoreOf(factors))) :
                         factors \in {coi_call.value
                                      \o check_cartel_pattern(
                                             tender_, tender_bids, companies_,
                                             cartel_clusters_)
                                      \o check_shell_company(tender_, winner)
                                      \o check_price_anomaly(tender_, all_tenders_)
                                      \o check_rushed_timeline(tender_)}}) :
               coi_call \in {check_conflict_of_interest(
                                 tender_, winner, directors_, officials_, graph_)}})

----------------------------------------------------------------------------
(* graph/builder.py: find_cartel_clusters *)

\* tender_bidders: tender id -> set of the companies that bid on it
TenderBidders(bids_) ==
    [t \in {bids_[i].tender_id : i \in DOMAIN bids_} |->
        {bids_[i].company_id : i \in {j \in DOMAIN bids_ : bids_[j].tender_id = t}}]

\* co_bid_counts[pair]: the number of tenders both companies of the pair bid on
CoBidCount(tender_bidders, pair) ==
    Cardinality({t \in DOMAIN tender_bidders : pair \subseteq tender_bidders[t]})

\* faulty variant of CoBidEdges: the counter has to exceed min_co_bids
CoBidEdgesAbove(bids_, min_co_bids_) ==
    LET tender_bidders == TenderBidders(bids_)
        bidders == UNION {tender_bidders[t] : t \in DOMAIN tender_bidders}
    IN {pair \in SUBSET bidders :
           /\ Cardinality(pair) = 2
           /\ CoBidCount(tender_bidders, pair) > min_co_bids_}

\* the edges of co_bid_graph: the pairs that have a counter (they bid together
\* at least once) and whose counter reaches min_co_bids
CoBidEdges(bids_, min_co_bids_) ==
    LET tender_bidders == TenderBidders(bids_)
        bidders == UNION {tender_bidders[t] : t \in DOMAIN tender_bidders}
    IN {pair \in SUBSET bidders :
           /\ Cardinality(pair) = 2
           /\ CoBidCount(tender_bidders, pair) >= 1
           /\ CoBidCount(tender_bidders, pair) >= min_co_bids_}

\* the nodes reachable from the set seen over edges
RECURSIVE Reachable(_, _)
Reachable(edges, seen) ==
    The({IF more = seen THEN seen ELSE Reachable(edges, more) :
            more \in {seen \cup UNION {e \in edges : e \cap seen # {}}}})

\* nx.connected_components
ConnectedComponents(edges) ==
    {Reachable(edges, {n}) : n \in UNION edges}

\* all orders a finite set can be listed in
RECURSIVE Orderings(_)
Orderings(S) ==
    IF S = {} THEN {<<>>}
    ELSE UNION {{<<x>> \o rest : rest \in Orderings(S \ {x})} : x \in S}

\* faulty variant of find_cartel_clusters: the edges G has between bidding
\* companies are added to the co-bid graph
find_cartel_clusters_reading_graph(G, bids_, min_co_bids_) ==
    LET bidders == {bids_[i].company_id : i \in DOMAIN bids_}
        related == {pair \in SUBSET bidders :
                       /\ Cardinality(pair) = 2
                       /\ \E u, v \in pair : u # v /\ HasEdge(G, u, v)}
    IN Orderings({component \in ConnectedComponents(
                                    CoBidEdges(bids_, min_co_bids_) \cup related) :
                     Cardinality(component) >= 3})

\* The set of lists the call can return: the components of 3 or more
\* companies, in the order nx.connected_components yields them, which follows
\* the iteration order of Python sets of strings.  G is not read.
find_cartel_clusters(G, bids_, min_co_bids_) ==
    Orderings({component \in ConnectedComponents(CoBidEdges(bids_, min_co_bids_)) :
                  Cardinality(component) >= 3})

----------------------------------------------------------------------------
(* graph/builder.py: the similarity matchers.  A Python str is modelled as *)
(* the sequence of its characters, each a string of length one.            *)

UPPERCASE ==
    <<"A", "B", "C", "D", "E", "F", "G", "H", "I", "J", "K", "L", "M",
      "N", "O", "P", "Q", "R", "S", "T", "U", "V", "W", "X", "Y", "Z">>

LOWERCASE ==
    <<"a", "b", "c", "d", "e", "f", "g", "h", "i", "j", "k", "l", "m",
      "n", "o", "p", "q", "r", "s", "t", "u", "v", "w", "x", "y", "z">>

\* the characters str.isdigit() and the pattern \d accept (ASCII)
Digits == {"0", "1", "2", "3", "4", "5", "6", "7", "8", "9"}

\* the ASCII characters the pattern \s accepts: blank, \t, \n, \r, \f, the
\* vertical tab \x0b and the separators \x1c, \x1d, \x1e and \x1f
Whitespace ==
    {" ", "\t", "\n", "\r", "\f", "", "", "", "", ""}

\* faulty variant of Lower: the address is compared as written
NotLowered(s) == s

\* str.lower()
Lower(s) ==
    [i \in DOMAIN s |->
        IF \E k \in DOMAIN UPPERCASE : UPPERCASE[k] = s[i]
        THEN LOWERCASE[CHOOSE k \in DOMAIN UPPERCASE : UPPERCASE[k] = s[i]]
        ELSE s[i]]

\* the first position from i on that holds no character of chars
\* (Len(s) + 1 when all the rest are)
SkipWhile(s, i, chars) ==
    CHOOSE j \in i..(Len(s) + 1) :
        /\ j = Len(s) + 1 \/ s[j] \notin chars
        /\ \A k \in i..(j - 1) : s[k] \in chars

\* a match of r'plot\s*(\d+)' starting at position i: group(1) in a Some, or
\* None.  \s* and \d+ are greedy and share no character, so the one attempt
\* with the longest runs decides.
PlotPatternMatchAt(s, i) ==
    IF i + 3 > Len(s) \/ SubSeq(s, i, i + 3) # <<"p", "l", "o", "t">> THEN None
    ELSE LET number == SkipWhile(s, i + 4, Whitespace)
             after == SkipWhile(s, number, Digits)
         IN IF after > number THEN Some(SubSeq(s, number, after - 1)) ELSE None

\* re.search(plot_pattern, s): the leftmost match
SearchPlotPattern(s) ==
    LET starts == {i \in 1..Len(s) : PlotPatternMatchAt(s, i) # None}
    IN IF starts = {} THEN None
       ELSE PlotPatternMatchAt(s, CHOOSE i \in starts : \A j \in starts : i <= j)

\* _addresses_similar
addresses_similar(addr1, addr2) ==
    LET match1 == SearchPlotPattern(Lower(addr1))
        match2 == SearchPlotPattern(Lower(addr2))
    IN IF match1 # None /\ match2 # None THEN match1[1] = match2[1] ELSE FALSE

\* _normalize_phone
normalize_phone(phone) == SelectSeq(phone, LAMBDA c : c \in Digits)

----------------------------------------------------------------------------
(* graph/builder.py build_procurement_graph.  The graph is the outcome of  *)
(* the add_node and add_edge calls in the order the code makes them.       *)

\* G.add_node(n, type=...)
AddNode(n, type) ==
    [ends |-> <<n>>, type |-> type, relationship |-> "", suspicious |-> FALSE]

\* G.add_edge(u, v, relationship=..., suspicious=...)
AddEdge(u, v, relationship, suspicious) ==
    [ends |-> <<u, v>>, type |-> "", relationship |-> relationship,
     suspicious |-> suspicious]

\* The nx.Graph a sequence of calls leaves: nodes and adj as GraphOf gives
\* them; type[n] the type of the last add_node of n ("" for a node that only
\* add_edge created); edge[{u, v}] the attributes of the one edge between u
\* and v, which a later add_edge of the same pair overwrites.
AttributedGraphOf(calls) ==
    LET g == GraphOf([i \in DOMAIN calls |-> calls[i].ends])
        NodeCalls(n) == {i \in DOMAIN calls : calls[i].ends = <<n>>}
        EdgeCalls(p) == {i \in DOMAIN calls :
                            Len(calls[i].ends) = 2 /\ Range(calls[i].ends) = p}
        Last(S) == CHOOSE i \in S : \A j \in S : j <= i
        pairs == {Range(calls[i].ends) :
                     i \in {j \in DOMAIN calls : Len(calls[j].ends) = 2}}
    IN [nodes |-> g.nodes,
        adj |-> g.adj,
        type |-> [n \in DOMAIN g.adj |->
                     IF NodeCalls(n) = {} THEN ""
                     ELSE calls[Last(NodeCalls(n))].type],
        edge |-> [p \in pairs |->
                     [relationship |-> calls[Last(EdgeCalls(p))].relationship,
                      suspicious |-> calls[Last(EdgeCalls(p))].suspicious]]]

\* the order in which the specifications insert the ids into their dicts
InsertionOrder ==
    <<"c1", "c2", "c3", "c4", "c5", "c6", "c9", "d1", "d2", "d9", "o1", "o9",
      "t1", "t2", "t3", "t4", "t5", "t9",
      "comp-001", "comp-002", "comp-003", "comp-004", "comp-005",
      "comp-006", "comp-007", "comp-008", "comp-009", "comp-010",
      "comp-011", "comp-012", "dir-001", "dir-002", "dir-003",
      "dir-004", "dir-005", "dir-006", "dir-007", "dir-008",
      "dir-009", "dir-010", "dir-011", "dir-012", "dir-013",
      "dir-014", "dir-015", "off-001", "off-002", "off-003",
      "off-004", "off-005", "tender-001", "tender-002", "tender-003",
      "tender-004", "tender-005", "tender-006", "tender-007", "tender-008",
      "tender-009", "tender-010", "tender-011", "tender-012", "tender-013",
      "tender-014", "tender-015", "tender-016", "tender-017", "tender-018",
      "tender-019", "tender-020">>

RECURSIVE Flatten(_)
Flatten(seqs) ==
    IF seqs = <<>> THEN <<>> ELSE Head(seqs) \o Flatten(Tail(seqs))

\* faulty variant of KnownCompanyIds: every company id of the director
AllCompanyIds(director, companies_) == director.company_ids

\* "for company_id in director.company_ids: if company_id in companies"
KnownCompanyIds(director, companies_) ==
    SelectSeq(director.company_ids, LAMBDA c : c \in KeySet(companies_))

\* lines 42-56: the calls made for one director
DirectorCalls(director, companies_) ==
    <<AddNode(director.id, "DIRECTOR")>>
    \o [i \in DOMAIN KnownCompanyIds(director, companies_) |->
           AddEdge(director.id, KnownCompanyIds(director, companies_)[i],
                   "DIRECTOR_OF", FALSE)]

\* "for person_id, relationship in official.related_persons.items():
\* if person_id in directors"
KnownRelatedPersons(official, directors_) ==
    SelectSeq(Keys(official.related_persons), LAMBDA p : p \in KeySet(directors_))

\* lines 59-76: the calls made for one official
OfficialCalls(official, directors_) ==
    <<AddNode(official.id, "OFFICIAL")>>
    \o [i \in DOMAIN KnownRelatedPersons(official, directors_) |->
           AddEdge(official.id, KnownRelatedPersons(official, directors_)[i],
                   "RELATED_TO", TRUE)]

\* faulty variant of TenderCalls: the tender is not joined to its officer
TenderCallsWithoutOfficer(tender_, officials_) ==
    <<AddNode(tender_.id, "TENDER")>>

\* lines 79-99: the calls made for one tender
TenderCalls(tender_, officials_) ==
    <<AddNode(tender_.id, "TENDER")>>
    \o IF /\ Truthy(tender_.procurement_officer_id, "")
          /\ tender_.procurement_officer_id[1] \in KeySet(officials_)
       THEN <<AddEdge(tender_.id, tender_.procurement_officer_id[1],
                      "AWARDED_BY", FALSE)>>
       ELSE <<>>

\* faulty variant of BidRelationship: the award is not looked at
AlwaysBidOn(tender_, bid) == "BID_ON"

\* is_winner = tender.awarded_to == bid.company_id, and the edge type chosen
BidRelationship(tender_, bid) ==
    IF tender_.awarded_to = Some(bid.company_id) THEN "WON" ELSE "BID_ON"

\* lines 102-113: the calls made for the bid list
BidCalls(tenders, companies_, bids_) ==
    LET kept == SelectSeq(bids_, LAMBDA b : /\ b.company_id \in KeySet(companies_)
                                            /\ b.tender_id \in KeySet(tenders))
    IN [i \in DOMAIN kept |->
           AddEdge(kept[i].company_id, kept[i].tender_id,
                   BidRelationship(tenders.at[kept[i].tender_id], kept[i]), FALSE)]

\* "for i, comp1 in enumerate(company_list): for comp2 in company_list[i+1:]":
\* the pairs <<comp1, comp2>> in the order the loops visit them
CompanyPairs(company_list) ==
    LET n == Len(company_list)
        order == SortedBy([p \in {q \in (1..n) \X (1..n) : q[1] < q[2]} |->
                              p[1] * (n + 1) + p[2]])
    IN [k \in DOMAIN order |->
           <<company_list[order[k][1]], company_list[order[k][2]]>>]

\* _add_shared_address_edges
add_shared_address_edges(companies_) ==
    LET similar == SelectSeq(CompanyPairs(Values(companies_)),
                             LAMBDA p : addresses_similar(p[1].address, p[2].address))
    IN [k \in DOMAIN similar |->
           AddEdge(similar[k][1].id, similar[k][2].id, "SHARES_ADDRESS", TRUE)]

\* faulty variant of SharedPhoneEdge: the edge is not flagged
SharedPhoneEdgeUnflagged(comp1, comp2) ==
    AddEdge(comp1.id, comp2.id, "SHARES_PHONE", FALSE)

\* lines 146-151: the edge added for a pair with equal phones
SharedPhoneEdge(comp1, comp2) ==
    AddEdge(comp1.id, comp2.id, "SHARES_PHONE", TRUE)

\* _add_shared_phone_edges
add_shared_phone_edges(companies_) ==
    LET same == SelectSeq(CompanyPairs(Values(companies_)),
                          LAMBDA p : normalize_phone(p[1].phone)
                                        = normalize_phone(p[2].phone))
    IN [k \in DOMAIN same |-> SharedPhoneEdge(same[k][1], same[k][2])]

\* the calls of build_procurement_graph, in order
BuildCalls(tenders, companies_, directors_, officials_, bids_) ==
    [i \in DOMAIN Values(companies_) |-> AddNode(Values(companies_)[i].id, "COMPANY")]
    \o Flatten([i \in DOMAIN Values(directors_) |->
                   DirectorCalls(Values(directors_)[i], companies_)])
    \o Flatten([i \in DOMAIN Values(officials_) |->
                   OfficialCalls(Values(officials_)[i], directors_)])
    \o Flatten([i \in DOMAIN Values(tenders) |->
                   TenderCalls(Values(tenders)[i], officials_)])
    \o BidCalls(tenders, companies_, bids_)
    \o add_shared_address_edges(companies_)
    \o add_shared_phone_edges(companies_)

\* The graph of the calls; risk_level[t] is the attribute add_node gives the
\* node of tender t: no caller passes tender_risks, so it is LOW (line 80).
build_procurement_graph(tenders, companies_, directors_, officials_, bids_) ==
    LET G == AttributedGraphOf(BuildCalls(tenders, companies_, directors_,
                                          officials_, bids_))
    IN [nodes |-> G.nodes, adj |-> G.adj, type |-> G.type, edge |-> G.edge,
        risk_level |-> [i \in {tenders.at[t].id : t \in KeySet(tenders)} |-> LOW]]

----------------------------------------------------------------------------
(* risk/engine.py compute_all_risk_scores *)

\* the default of find_cartel_clusters' min_co_bids parameter
DEFAULT_MIN_CO_BIDS == 3

\* faulty variant of PrecomputedClusters: companies that bid together twice
\* already form a cluster
ClustersOfTwoCoBids(graph_, bids_) == find_cartel_clusters(graph_, bids_, 2)

\* line 357: find_cartel_clusters(graph, bids), min_co_bids at its default;
\* the set of lists the call can return
PrecomputedClusters(graph_, bids_) ==
    find_cartel_clusters(graph_, bids_, DEFAULT_MIN_CO_BIDS)

\* lines 359-370: the loop over tenders.items(), from the tender ids still to
\* visit and the results so far; an exception of compute_risk_score ends it
RECURSIVE ScoreEach(_, _, _, _, _, _, _, _, _)
ScoreEach(todo, results, tenders, companies_, directors_, officials_, bids_, graph_, cartel_clusters_) ==
    IF todo = <<>> THEN Returned(Some(results))
    ELSE LET call == compute_risk_score(tenders.at[Head(todo)], companies_,
                                        directors_, officials_, bids_, graph_,
                                        cartel_clusters_, tenders)
         IN IF call.raised # "" THEN call
            ELSE ScoreEach(Tail(todo), Put(results, Head(todo), call.value[1]),
                           tenders, companies_, directors_, officials_, bids_,
                           graph_, cartel_clusters_)

\* The set of outcomes of the call, one for each list of clusters
\* find_cartel_clusters can return.
compute_all_risk_scores(tenders, companies_, directors_, officials_, bids_, graph_) ==
    {ScoreEach(Keys(tenders), EmptyDict, tenders, companies_, directors_,
               officials_, bids_, graph_, cartel_clusters_) :
        cartel_clusters_ \in PrecomputedClusters(graph_, bids_)}

----------------------------------------------------------------------------
(* The data the specifications draw from *)

\* bounds of the model
MaxAge == 91          \* company ages at the deadline run up to MaxAge + 1 days
MaxWindow == 9        \* submission windows run up to MaxWindow + 1 days
MaxAwarded == 160     \* awarded amounts run from 0 to MaxAwarded
MaxEdges == 4         \* edges of a relationship graph passed to the engine
MaxClusters == 2      \* length of a cluster list passed to the engine
MaxMinCoBids == 3     \* min_co_bids runs from 1 to MaxMinCoBids

CompanyIds == {"c1", "c2", "c3", "c4"}
UnknownCompany == "c9"            \* an id that is no key of the company map
OfficialIds == {"o1"}
UnknownOfficial == "o9"
DirectorIds == {"d1", "d2"}

Deadlines == {MaxAge, MaxAge + 1}
RegistrationDates == 0..(MaxAge + 2)
PublishedDates == (MaxAge - MaxWindow)..(MaxAge + 2)
EstimatedValues == {0, 2, 5, 100}
AwardedAmounts == {None} \cup {Some(a) : a \in 0..MaxAwarded}

Company(id, registration_date, director_ids) ==
    [id |-> id, registration_date |-> registration_date,
     director_ids |-> director_ids]

Director(id, company_ids) == [id |-> id, company_ids |-> company_ids]

PublicOfficial(id, related_persons) ==
    [id |-> id, related_persons |-> related_persons]

Bid(tender_id, company_id) == [tender_id |-> tender_id, company_id |-> company_id]

Tender(id, category, estimated_value, published_date, deadline, status, awarded_to, awarded_amount, procurement_officer_id) ==
    [id |-> id, category |-> category, estimated_value |-> estimated_value,
     published_date |-> published_date, deadline |-> deadline,
     status |-> status, awarded_to |-> awarded_to,
     awarded_amount |-> awarded_amount,
     procurement_officer_id |-> procurement_officer_id]

\* a company map in which c1 has the given registration date and directors
CompaniesWith(registration_date, director_ids) ==
    DictOf(InsertionOrder,
           [c \in CompanyIds |->
               IF c = "c1" THEN Company(c, registration_date, director_ids)
               ELSE Company(c, 0, <<>>)])

DirectorsKnown(ids) ==
    DictOf(InsertionOrder, [d \in ids |-> Director(d, <<"c1">>)])

OfficialsWith(related_persons) ==
    DictOf(InsertionOrder,
           [o \in OfficialIds |-> PublicOfficial(o, related_persons)])

\* the dict in which every director of the list persons has the relationship
Related(persons, relationship) ==
    DictOf(persons, [d \in Range(persons) |-> relationship])

\* the related-person maps an official is given
RelatedPersonMaps ==
    {EmptyDict,
     Related(<<"d1">>, "SIBLING"),
     Related(<<"d2">>, "PARENT_CHILD"),
     Put(Related(<<"d1">>, "SPOUSE"), "d2", "BUSINESS_PARTNER")}

DirectorLists == {<<>>, <<"d1">>, <<"d1", "d2">>, <<"d2", "d1">>}

\* the bid list in which exactly the companies of bidders bid on tender t1 and
\* c1 also bids on t2
BidsOn(bidders) ==
    LET order == <<"c1", "c2", "c3", "c4", "c9">>
        chosen == SelectSeq(order, LAMBDA c : c \in bidders)
    IN <<Bid("t2", "c1")>> \o [i \in 1..Len(chosen) |-> Bid("t1", chosen[i])]

\* relationship graphs over these nodes, their edges added in this order
GraphNodes == <<"c1", "d1", "d2", "t1", "o1">>

PossibleEdges ==
    <<<<"c1", "d1">>, <<"c1", "d2">>, <<"c1", "t1">>, <<"c1", "o1">>,
      <<"d1", "d2">>, <<"d1", "t1">>, <<"d1", "o1">>,
      <<"d2", "t1">>, <<"d2", "o1">>, <<"t1", "o1">>>>

GraphWith(ns, chosen) ==
    GraphOf([i \in DOMAIN ns |-> <<ns[i]>>]
            \o SelectSeq(PossibleEdges, LAMBDA e : e \in chosen))

EdgeChoices ==
    {chosen \in SUBSET Range(PossibleEdges) : Cardinality(chosen) <= MaxEdges}

\* c1 - d1 - o1
ShortPathGraph == GraphWith(GraphNodes, {<<"c1", "d1">>, <<"d1", "o1">>})

\* nodes without edges
PlainGraph == GraphWith(GraphNodes, {})

ClusterChoices ==
    {c \in SUBSET CompanyIds : Cardinality(c) >= 3}
    \cup {{"c1", "c2", UnknownCompany}}

RECURSIVE ListsUpTo(_, _)
ListsUpTo(S, n) ==
    IF n = 0 THEN {<<>>}
    ELSE LET shorter == ListsUpTo(S, n - 1)
         IN shorter \cup {Append(l, x) : l \in {k \in shorter : Len(k) = n - 1}, x \in S}

PlainTender ==
    Tender("t1", "Works", 100, MaxAge - MaxWindow - 1, MaxAge, "AWARDED",
           Some("c1"), Some(100), Some("o1"))

\* the other tenders of all_tenders: id, category, status, awarded amount
OtherTenders ==
    {Tender("t2", "Works", 100, 0, MaxAge, "AWARDED", Some("c2"), Some(40), None),
     Tender("t3", "Works", 100, 0, MaxAge, "AWARDED", Some("c2"), Some(120), None),
     Tender("t4", "Works", 100, 0, MaxAge, "EVALUATION", None, None, None),
     Tender("t5", "Goods", 100, 0, MaxAge, "AWARDED", Some("c3"), Some(10), None)}

\* the dict of the tender itself and the given others, keyed by id
TenderMap(ts) ==
    DictOf(InsertionOrder,
           [id \in {t.id : t \in ts} |-> CHOOSE t \in ts : t.id = id])

\* addresses, character by character
\* 'Plot 45, X'
PLOT_45_X == <<"P", "l", "o", "t", " ", "4", "5", ",", " ", "X">>

\* 'Plot 45B, Y'
PLOT_45B_Y == <<"P", "l", "o", "t", " ", "4", "5", "B", ",", " ", "Y">>

\* 'Plot 46'
PLOT_46 == <<"P", "l", "o", "t", " ", "4", "6">>

\* 'PLOT45A'
UPPER_PLOT45A == <<"P", "L", "O", "T", "4", "5", "A">>

\* 'Plot 045, Z'
PLOT_045_Z == <<"P", "l", "o", "t", " ", "0", "4", "5", ",", " ", "Z">>

\* '12 Main St'
NO_PLOT == <<"1", "2", " ", "M", "a", "i", "n", " ", "S", "t">>

\* 'Plot, plot  45'
PLOT_THEN_PLOT_45 == <<"P", "l", "o", "t", ",", " ", "p", "l", "o", "t", " ", " ", "4", "5">>

\* 'plot<TAB>4'
PLOT_4 == <<"p", "l", "o", "t", "\t", "4">>

\* 'Plot 46 Plot 45'
PLOT_46_PLOT_45 == <<"P", "l", "o", "t", " ", "4", "6", " ", "P", "l", "o", "t", " ", "4", "5">>

\* 'plot<VT>45', the vertical tab \x0b between the word and the number
PLOT_VT_45 == <<"p", "l", "o", "t", "", "4", "5">>

Addresses ==
    {PLOT_45_X, PLOT_45B_Y, PLOT_46, UPPER_PLOT45A, PLOT_045_Z,
     NO_PLOT, PLOT_THEN_PLOT_45, PLOT_4, PLOT_46_PLOT_45, PLOT_VT_45}

\* phone numbers, character by character
\* '07 1'
PHONE_SPACED == <<"0", "7", " ", "1">>

\* '07-1'
PHONE_DASHED == <<"0", "7", "-", "1">>

\* '072'
PHONE_OTHER == <<"0", "7", "2">>

\* 'n/a'
PHONE_NONE == <<"n", "/", "a">>

PHONE_EMPTY == <<>>

\* a company with the fields build_procurement_graph reads
CompanyAt(id, address, phone) ==
    [id |-> id, registration_date |-> 0, director_ids |-> <<>>,
     address |-> address, phone |-> phone]

----------------------------------------------------------------------------
(* data/synthetic.py: the dataset of the repository.  A date is its        *)
(* proleptic Gregorian ordinal (date.toordinal()), an amount its whole     *)
(* number of KES; the fields no function of the model reads are left out.  *)

\* a company with its name, address and phone
NamedCompany(id, name, registration_date, director_ids, address, phone) ==
    [id |-> id, name |-> name, registration_date |-> registration_date,
     director_ids |-> director_ids, address |-> address, phone |-> phone]

SyntheticDirectors ==
    <<Director("dir-001", <<"comp-001", "comp-002">>),
      Director("dir-002", <<"comp-001">>),
      Director("dir-003", <<"comp-002", "comp-003">>),
      Director("dir-004", <<"comp-003">>),
      Director("dir-005", <<"comp-004">>),
      Director("dir-006", <<"comp-004">>),
      Director("dir-007", <<"comp-005">>),
      Director("dir-008", <<"comp-006">>),
      Director("dir-009", <<"comp-006">>),
      Director("dir-010", <<"comp-007">>),
      Director("dir-011", <<"comp-008">>),
      Director("dir-012", <<"comp-009">>),
      Director("dir-013", <<"comp-010">>),
      Director("dir-014", <<"comp-011">>),
      Director("dir-015", <<"comp-012">>)>>

SyntheticOfficials ==
    <<PublicOfficial("off-001", Related(<<"dir-008">>, "SIBLING")),
      PublicOfficial("off-002", EmptyDict),
      PublicOfficial("off-003", EmptyDict),
      PublicOfficial("off-004", EmptyDict),
      PublicOfficial("off-005", EmptyDict)>>

SyntheticCompanies ==
    <<NamedCompany("comp-001", "Wanjiku Construction Ltd", 737133, <<"dir-001", "dir-002">>,
                   <<"P", "l", "o", "t", " ", "4", "5", ",", " ", "I", "n", "d", "u", "s", "t", "r", "i", "a", "l", " ", "A", "r", "e", "a", ",", " ", "N", "a", "i", "r", "o", "b", "i">>,
                   <<"+", "2", "5", "4", " ", "2", "0", " ", "5", "5", "5", " ", "0", "0", "0", "1">>),
      NamedCompany("comp-002", "Mwamba Developers Co.", 736897, <<"dir-001", "dir-003">>,
                   <<"P", "l", "o", "t", " ", "4", "5", "A", ",", " ", "I", "n", "d", "u", "s", "t", "r", "i", "a", "l", " ", "A", "r", "e", "a", ",", " ", "N", "a", "i", "r", "o", "b", "i">>,
                   <<"+", "2", "5", "4", " ", "2", "0", " ", "5", "5", "5", " ", "0", "0", "0", "2">>),
      NamedCompany("comp-003", "Safari Contractors Ltd", 737434, <<"dir-003", "dir-004">>,
                   <<"P", "l", "o", "t", " ", "4", "7", ",", " ", "I", "n", "d", "u", "s", "t", "r", "i", "a", "l", " ", "A", "r", "e", "a", ",", " ", "N", "a", "i", "r", "o", "b", "i">>,
                   <<"+", "2", "5", "4", " ", "2", "0", " ", "5", "5", "5", " ", "0", "0", "0", "3">>),
      NamedCompany("comp-004", "Eastlands Builders Ltd", 736638, <<"dir-005", "dir-006">>,
                   <<"P", "l", "o", "t", " ", "4", "5", "B", ",", " ", "I", "n", "d", "u", "s", "t", "r", "i", "a", "l", " ", "A", "r", "e", "a", ",", " ", "N", "a", "i", "r", "o", "b", "i">>,
                   <<"+", "2", "5", "4", " ", "2", "0", " ", "5", "5", "5", " ", "0", "0", "0", "1">>),
      NamedCompany("comp-005", "FastTrack Solutions Ltd", 739627, <<"dir-007">>,
                   <<"V", "i", "r", "t", "u", "a", "l", " ", "O", "f", "f", "i", "c", "e", ",", " ", "W", "e", "s", "t", "l", "a", "n", "d", "s", ",", " ", "N", "a", "i", "r", "o", "b", "i">>,
                   <<"+", "2", "5", "4", " ", "7", "0", "0", " ", "1", "2", "3", " ", "4", "5", "6">>),
      NamedCompany("comp-006", "HealthFirst Medical Supplies Ltd", 737928, <<"dir-008", "dir-009">>,
                   <<"L", "i", "k", "o", "n", "i", " ", "R", "o", "a", "d", ",", " ", "I", "n", "d", "u", "s", "t", "r", "i", "a", "l", " ", "A", "r", "e", "a", ",", " ", "N", "a", "i", "r", "o", "b", "i">>,
                   <<"+", "2", "5", "4", " ", "2", "0", " ", "4", "4", "4", " ", "5", "6", "7", "8">>),
      NamedCompany("comp-007", "Kilonzo Office Supplies", 735822, <<"dir-010">>,
                   <<"M", "o", "m", "b", "a", "s", "a", " ", "R", "o", "a", "d", ",", " ", "N", "a", "i", "r", "o", "b", "i">>,
                   <<"+", "2", "5", "4", " ", "2", "0", " ", "3", "3", "3", " ", "4", "5", "6", "7">>),
      NamedCompany("comp-008", "Gitau Medical Equipment Ltd", 736022, <<"dir-011">>,
                   <<"U", "p", "p", "e", "r", " ", "H", "i", "l", "l", ",", " ", "N", "a", "i", "r", "o", "b", "i">>,
                   <<"+", "2", "5", "4", " ", "2", "0", " ", "2", "2", "2", " ", "3", "4", "5", "6">>),
      NamedCompany("comp-009", "Korir Road Construction Co.", 735399, <<"dir-012">>,
                   <<"E", "l", "d", "o", "r", "e", "t", " ", "T", "o", "w", "n", ",", " ", "U", "a", "s", "i", "n", " ", "G", "i", "s", "h", "u">>,
                   <<"+", "2", "5", "4", " ", "5", "3", " ", "2", "0", "6", " ", "1", "2", "3", "4">>),
      NamedCompany("comp-010", "Achieng IT Solutions", 737305, <<"dir-013">>,
                   <<"K", "i", "s", "u", "m", "u", " ", "C", "B", "D", ",", " ", "K", "i", "s", "u", "m", "u">>,
                   <<"+", "2", "5", "4", " ", "5", "7", " ", "2", "0", "2", " ", "5", "6", "7", "8">>),
      NamedCompany("comp-011", "Nthiga Security Services", 736804, <<"dir-014">>,
                   <<"M", "e", "r", "u", " ", "T", "o", "w", "n", ",", " ", "M", "e", "r", "u">>,
                   <<"+", "2", "5", "4", " ", "6", "4", " ", "2", "0", "3", " ", "1", "2", "3", "4">>),
      NamedCompany("comp-012", "Ndung'u Pharmaceuticals Ltd", 734815, <<"dir-015">>,
                   <<"T", "h", "i", "k", "a", " ", "R", "o", "a", "d", ",", " ", "N", "a", "i", "r", "o", "b", "i">>,
                   <<"+", "2", "5", "4", " ", "2", "0", " ", "8", "7", "6", " ", "5", "4", "3", "2">>)>>

SyntheticTenders ==
    <<Tender("tender-001", "Road Construction", 450000000, 739618, 739632, "AWARDED",
             Some("comp-001"), Some(445000000), Some("off-002")),
      Tender("tender-002", "Information Technology", 78000000, 739626, 739631, "AWARDED",
             Some("comp-005"), Some(78000000), Some("off-004")),
      Tender("tender-003", "Medical Supplies", 120000000, 739621, 739635, "AWARDED",
             Some("comp-006"), Some(118500000), Some("off-001")),
      Tender("tender-004", "Road Construction", 85000000, 739619, 739633, "AWARDED",
             Some("comp-003"), Some(82000000), Some("off-005")),
      Tender("tender-005", "Medical Supplies", 45000000, 739624, 739638, "AWARDED",
             Some("comp-006"), Some(81000000), Some("off-003")),
      Tender("tender-006", "Office Supplies", 8500000, 739620, 739641, "AWARDED",
             Some("comp-007"), Some(8200000), Some("off-003")),
      Tender("tender-007", "Road Construction", 25000000, 739622, 739643, "AWARDED",
             Some("comp-009"), Some(24500000), Some("off-002")),
      Tender("tender-008", "Road Construction", 320000000, 739623, 739637, "EVALUATION",
             None, None, Some("off-002")),
      Tender("tender-009", "Information Technology", 35000000, 739626, 739647, "OPEN",
             None, None, None),
      Tender("tender-010", "Medical Supplies", 28000000, 739625, 739646, "AWARDED",
             Some("comp-012"), Some(27200000), Some("off-001")),
      Tender("tender-011", "Building Construction", 180000000, 739624, 739638, "AWARDED",
             Some("comp-002"), Some(175000000), Some("off-005")),
      Tender("tender-012", "Security Services", 12000000, 739627, 739648, "OPEN",
             None, None, Some("off-003")),
      Tender("tender-013", "Information Technology", 18000000, 739628, 739652, "OPEN",
             None, None, Some("off-004")),
      Tender("tender-014", "Medical Supplies", 55000000, 739630, 739634, "EVALUATION",
             None, None, Some("off-001")),
      Tender("tender-015", "Road Construction", 95000000, 739621, 739635, "AWARDED",
             Some("comp-004"), Some(93000000), Some("off-002")),
      Tender("tender-016", "Office Supplies", 4500000, 739629, 739657, "OPEN",
             None, None, None),
      Tender("tender-017", "Medical Supplies", 150000000, 739622, 739643, "AWARDED",
             Some("comp-008"), Some(148000000), Some("off-003")),
      Tender("tender-018", "Information Technology", 42000000, 739620, 739634, "CANCELLED",
             None, None, Some("off-005")),
      Tender("tender-019", "Road Construction", 65000000, 739626, 739650, "EVALUATION",
             None, None, Some("off-002")),
      Tender("tender-020", "Security Services", 22000000, 739627, 739651, "OPEN",
             None, None, Some("off-004"))>>

SyntheticBids ==
    <<Bid("tender-001", "comp-001"), Bid("tender-001", "comp-002"),
      Bid("tender-001", "comp-003"), Bid("tender-001", "comp-004"),
      Bid("tender-001", "comp-009"), Bid("tender-002", "comp-005"),
      Bid("tender-002", "comp-010"), Bid("tender-003", "comp-006"),
      Bid("tender-003", "comp-008"), Bid("tender-003", "comp-012"),
      Bid("tender-004", "comp-001"), Bid("tender-004", "comp-002"),
      Bid("tender-004", "comp-003"), Bid("tender-004", "comp-004"),
      Bid("tender-005", "comp-006"), Bid("tender-005", "comp-012"),
      Bid("tender-006", "comp-007"), Bid("tender-006", "comp-010"),
      Bid("tender-007", "comp-009"), Bid("tender-008", "comp-001"),
      Bid("tender-008", "comp-002"), Bid("tender-008", "comp-003"),
      Bid("tender-008", "comp-004"), Bid("tender-010", "comp-012"),
      Bid("tender-010", "comp-006"), Bid("tender-011", "comp-001"),
      Bid("tender-011", "comp-002"), Bid("tender-011", "comp-003"),
      Bid("tender-011", "comp-004"), Bid("tender-014", "comp-006"),
      Bid("tender-014", "comp-012"), Bid("tender-015", "comp-001"),
      Bid("tender-015", "comp-002"), Bid("tender-015", "comp-003"),
      Bid("tender-015", "comp-004"), Bid("tender-017", "comp-008"),
      Bid("tender-017", "comp-006"), Bid("tender-019", "comp-009"),
      Bid("tender-019", "comp-001")>>

\* the members of the list ks without repetition, each at the place of its
\* first occurrence: the keys of a dict that is filled in the order of ks
FirstOccurrences(ks) ==
    LET first == {i \in DOMAIN ks : \A j \in 1..(i - 1) : ks[j] # ks[i]}
        order == SortedBy([i \in first |-> i])
    IN [k \in DOMAIN order |-> ks[order[k]]]

\* {x.id: x for x in xs}: the ids in the order of their first occurrence,
\* each with the last x that has it
ById(xs) ==
    LET keys == FirstOccurrences([i \in DOMAIN xs |-> xs[i].id])
    IN [keys |-> keys,
        at |-> [id \in Range(keys) |->
                   xs[CHOOSE i \in DOMAIN xs :
                          /\ xs[i].id = id
                          /\ \A j \in (i + 1)..Len(xs) : xs[j].id # id]]]

\* _group_bids_by_tender: the tender ids in the order of their first bid,
\* each with its bids in the order of the list
group_bids_by_tender(bids_) ==
    LET keys == FirstOccurrences([i \in DOMAIN bids_ |-> bids_[i].tender_id])
    IN [keys |-> keys,
        at |-> [t \in Range(keys) |->
                   SelectSeq(bids_, LAMBDA b : b.tender_id = t)]]

\* the keys of the dict get_data_store returns, in the order of the literal
DataStoreKeys ==
    <<"directors", "officials", "companies", "tenders", "bids", "bids_by_tender">>

get_data_store ==
    DictOf(DataStoreKeys,
           [directors |-> ById(SyntheticDirectors),
            officials |-> ById(SyntheticOfficials),
            companies |-> ById(SyntheticCompanies),
            tenders |-> ById(SyntheticTenders),
            bids |-> SyntheticBids,
            bids_by_tender |-> group_bids_by_tender(SyntheticBids)])

----------------------------------------------------------------------------
(* graph/builder.py: get_tender_subgraph and graph_to_frontend_format.     *)

\* lines 247-255: the nodes within depth hops, from the nodes found so far and
\* the current frontier
RECURSIVE WithinHops(_, _, _, _)
WithinHops(G, nodes, current_frontier, depth) ==
    IF depth = 0 THEN nodes
    ELSE LET next_frontier == UNION {Range(G.adj[n]) : n \in current_frontier}
         IN WithinHops(G, nodes \cup next_frontier, next_frontier, depth - 1)

\* G.subgraph(nodes).copy(): the nodes of the set, their attributes and the
\* edges between them.  The sequences keep the order of G; the order of the
\* copy can also follow the iteration of the Python set, and nothing below
\* reads it.
Subgraph(G, nodes) ==
    [nodes |-> SelectSeq(G.nodes, LAMBDA n : n \in nodes),
     adj |-> [n \in nodes |-> SelectSeq(G.adj[n], LAMBDA w : w \in nodes)],
     type |-> [n \in nodes |-> G.type[n]],
     edge |-> [e \in {x \in DOMAIN G.edge : x \subseteq nodes} |-> G.edge[e]],
     risk_level |-> [n \in nodes \cap DOMAIN G.risk_level |-> G.risk_level[n]]]

\* nx.Graph()
EmptyGraph ==
    [nodes |-> <<>>, adj |-> <<>>, type |-> <<>>, edge |-> <<>>,
     risk_level |-> <<>>]

get_tender_subgraph(G, tender_id, depth) ==
    IF ~HasNode(G, tender_id) THEN EmptyGraph
    ELSE Subgraph(G, WithinHops(G, {tender_id}, {tender_id}, depth))

\* GraphData.  nodes and edges are the sets of the entries of the two lists:
\* a node with its type and risk level, an edge with its two ends, its
\* relationship and its flag; the positions in the lists, the edge ids, the
\* labels and the metadata are left out.
graph_to_frontend_format(G) ==
    [nodes |-> {[id |-> n,
                 type |-> IF G.type[n] = "" THEN "COMPANY" ELSE G.type[n],
                 risk_level |-> IF n \in DOMAIN G.risk_level
                                THEN Some(G.risk_level[n]) ELSE None] :
                   n \in Nodes(G)},
     edges |-> {[ends |-> e, relationship |-> G.edge[e].relationship,
                 suspicious |-> G.edge[e].suspicious] : e \in DOMAIN G.edge}]

----------------------------------------------------------------------------
(* main.py: the request handlers.  Each reads the module globals; its      *)
(* outcome is the response, or the exception that ends the request.        *)

\* RISK_SCORES.get(tender_id, RiskScore(overall=0, category=RiskCategory.LOW));
\* the default has no recommendation, written "" here
RiskOf(tender_id) ==
    IF tender_id \in KeySet(RISK_SCORES) THEN RISK_SCORES.at[tender_id]
    ELSE RiskScore(0, LOW, <<>>, "")

\* sum(1 for r in RISK_SCORES.values() if r.category == c)
CountCategory(c) ==
    Cardinality({t \in KeySet(RISK_SCORES) : RISK_SCORES.at[t].category = c})

RECURSIVE SumEstimatedValues(_)
SumEstimatedValues(ts) ==
    IF ts = <<>> THEN 0
    ELSE Head(ts).estimated_value + SumEstimatedValues(Tail(ts))

\* list.sort(key=..., reverse=True) of s, keys[i] the key of s[i]: decreasing
\* keys, entries of equal keys in the order they had
SortedDescending(s, keys) ==
    LET Before(i, j) == keys[i] > keys[j] \/ (keys[i] = keys[j] /\ i < j)
    IN [k \in DOMAIN s |->
           s[CHOOSE i \in DOMAIN s :
                 Cardinality({j \in DOMAIN s : Before(j, i)}) = k - 1]]

root ==
    Returned(Some([name |-> "Sentinel API", status |-> "operational",
                   version |-> "0.1.0"]))

get_dashboard_stats ==
    IF "tenders" \notin KeySet(DATA_STORE) THEN Raised("KeyError")
    ELSE LET tenders == DATA_STORE.at.tenders
         IN Returned(Some(
                [total_tenders |-> Cardinality(KeySet(tenders)),
                 high_risk_count |-> CountCategory(HIGH),
                 medium_risk_count |-> CountCategory(MEDIUM),
                 low_risk_count |-> CountCategory(LOW),
                 pending_review |->
                     Cardinality({t \in KeySet(tenders) :
                                     tenders.at[t].status \in {"OPEN", "EVALUATION"}}),
                 total_value |-> SumEstimatedValues(Values(tenders)),
                 flagged_today |-> CountCategory(HIGH)]))

get_tenders(risk_level, status, sort_by, limit) ==
    IF "tenders" \notin KeySet(DATA_STORE) THEN Raised("KeyError")
    ELSE LET tenders == DATA_STORE.at.tenders
             bids_by_tender == DATA_STORE.at.bids_by_tender
             kept == SelectSeq(Keys(tenders),
                               LAMBDA t :
                                   /\ risk_level = None
                                         \/ RiskOf(t).category = risk_level[1]
                                   /\ status = None \/ tenders.at[t].status = status[1])
             results == [i \in DOMAIN kept |->
                            [tender |-> tenders.at[kept[i]],
                             risk |-> RiskOf(kept[i]),
                             bidder_count |->
                                 IF kept[i] \in KeySet(bids_by_tender)
                                 THEN Len(bids_by_tender.at[kept[i]]) ELSE 0]]
             sorted ==
                 CASE sort_by = "risk" ->
                          SortedDescending(results,
                              [i \in DOMAIN results |-> results[i].risk.overall])
                   [] sort_by = "value" ->
                          SortedDescending(results,
                              [i \in DOMAIN results |-> results[i].tender.estimated_value])
                   [] sort_by = "date" ->
                          SortedDescending(results,
                              [i \in DOMAIN results |-> results[i].tender.published_date])
                   [] OTHER -> results
         IN Returned(Some(SubSeq(sorted, 1, Min(limit, Len(sorted)))))

get_tender_detail(tender_id) ==
    IF "tenders" \notin KeySet(DATA_STORE) THEN Raised("KeyError")
    ELSE LET tenders == DATA_STORE.at.tenders
             companies_ == DATA_STORE.at.companies
             bids_by_tender == DATA_STORE.at.bids_by_tender
         IN IF tender_id \notin KeySet(tenders) THEN Raised("HTTPException")
            ELSE Returned(Some(
                     [tender |-> tenders.at[tender_id],
                      risk |-> RiskOf(tender_id),
                      bids |-> IF tender_id \in KeySet(bids_by_tender)
                               THEN bids_by_tender.at[tender_id] ELSE <<>>,
                      winning_company |->
                          IF Truthy(tenders.at[tender_id].awarded_to, "")
                          THEN Get(companies_, tenders.at[tender_id].awarded_to[1])
                          ELSE None]))

\* with GRAPH still None, "tender_id not in G" raises TypeError
get_tender_graph(tender_id, depth) ==
    IF "tenders" \notin KeySet(DATA_STORE) THEN Raised("KeyError")
    ELSE IF tender_id \notin KeySet(DATA_STORE.at.tenders) THEN Raised("HTTPException")
    ELSE IF GRAPH = None THEN Raised("TypeError")
    ELSE Returned(Some(graph_to_frontend_format(
                           get_tender_subgraph(GRAPH[1], tender_id, depth))))

\* with GRAPH still None, G.nodes raises AttributeError
get_full_graph ==
    IF GRAPH = None THEN Raised("AttributeError")
    ELSE Returned(Some(graph_to_frontend_format(GRAPH[1])))

\* The set of outcomes, one for each list find_cartel_clusters can return;
\* list(cluster) is given as the set it lists.  find_cartel_clusters does not
\* read its graph argument.
get_cartel_clusters ==
    IF "bids" \notin KeySet(DATA_STORE) THEN {Raised("KeyError")}
    ELSE LET companies_ == DATA_STORE.at.companies
         IN {Returned(Some(
                 [cartels |-> [i \in DOMAIN clusters |->
                                  [company_ids |-> clusters[i],
                                   company_names |->
                                       {companies_.at[cid].name :
                                           cid \in clusters[i] \cap KeySet(companies_)},
                                   size |-> Cardinality(clusters[i])]],
                  total |-> Len(clusters)])) :
                clusters \in find_cartel_clusters(GRAPH, DATA_STORE.at.bids,
                                                  DEFAULT_MIN_CO_BIDS)}

get_company(company_id) ==
    IF "companies" \notin KeySet(DATA_STORE) THEN Raised("KeyError")
    ELSE LET companies_ == DATA_STORE.at.companies
             directors_ == DATA_STORE.at.directors
         IN IF company_id \notin KeySet(companies_) THEN Raised("HTTPException")
            ELSE Returned(Some(
                     [company |-> companies_.at[company_id],
                      directors |->
                          LET known == SelectSeq(companies_.at[company_id].director_ids,
                                                 LAMBDA did : did \in KeySet(directors_))
                          IN [i \in DOMAIN known |-> directors_.at[known[i]]]]))

----------------------------------------------------------------------------
(* Specification Spec: calls of the risk engine.                           *)
(* Init draws the arguments; each action is one call on them.              *)

\* main.py lines 25-27: the globals as the module body leaves them
ImportMain ==
    /\ DATA_STORE = EmptyDict
    /\ GRAPH = None
    /\ RISK_SCORES = EmptyDict

Setup(t, cs, ds, os, bs, g, cl, at) ==
    /\ ImportMain
    /\ risk_factors = <<>>
    /\ risk_category = LOW
    /\ tender = t
    /\ companies = cs
    /\ directors = ds
    /\ officials = os
    /\ bids = bs
    /\ graph = g
    /\ cartel_clusters = cl
    /\ all_tenders = at
    /\ min_co_bids = DEFAULT_MIN_CO_BIDS
    /\ pc = "ready"
    /\ ret = Returned(None)

\* conflict of interest: directors, related persons and graphs vary
InitConflict ==
    \E director_ids \in DirectorLists, related \in RelatedPersonMaps,
       chosen \in EdgeChoices :
        Setup(PlainTender, CompaniesWith(0, director_ids),
              DirectorsKnown(DirectorIds),
              OfficialsWith(related), BidsOn({"c1"}),
              GraphWith(GraphNodes, chosen), <<>>, TenderMap({PlainTender}))

\* missing or dangling winner, officer and director, graphs that lack their
\* nodes
InitMissing ==
    \E awarded_to \in {None, Some("c1"), Some(UnknownCompany)},
       officer \in {None, Some("o1"), Some(UnknownOfficial)},
       related \in RelatedPersonMaps, known \in {DirectorIds, {"d2"}},
       g \in {GraphOf(<<>>), ShortPathGraph, GraphWith(<<"c1">>, {}),
              GraphWith(<<"o1", "d1">>, {<<"d1", "o1">>}),
              GraphWith(<<"c1", UnknownOfficial>>, {})} :
        LET t == [PlainTender EXCEPT !.awarded_to = awarded_to,
                                     !.procurement_officer_id = officer]
        IN Setup(t, CompaniesWith(0, <<"d1">>), DirectorsKnown(known),
                 OfficialsWith(related), BidsOn({"c1"}), g, <<>>, TenderMap({t}))

\* cartel pattern: bidders and cluster lists vary
InitCartel ==
    \E bidders \in SUBSET (CompanyIds \cup {UnknownCompany}),
       clusters \in ListsUpTo(ClusterChoices, MaxClusters) :
        Setup(PlainTender, CompaniesWith(0, <<>>), DirectorsKnown(DirectorIds),
              OfficialsWith(EmptyDict), BidsOn(bidders), PlainGraph, clusters,
              TenderMap({PlainTender}))

\* shell company: registration date and deadline vary
InitShell ==
    \E deadline \in Deadlines, registration_date \in RegistrationDates,
       awarded_to \in {None, Some("c1"), Some(UnknownCompany)},
       awarded_amount \in {None, Some(0), Some(100)} :
        LET t == [PlainTender EXCEPT !.deadline = deadline,
                                     !.published_date = deadline - MaxWindow - 1,
                                     !.awarded_to = awarded_to,
                                     !.awarded_amount = awarded_amount]
        IN Setup(t, CompaniesWith(registration_date, <<>>),
                 DirectorsKnown(DirectorIds), OfficialsWith(EmptyDict),
                 BidsOn({"c1"}), PlainGraph, <<>>, TenderMap({t}))

\* price anomaly: amounts vary
InitPrice ==
    \E awarded_amount \in AwardedAmounts, estimated_value \in EstimatedValues :
        LET t == [PlainTender EXCEPT !.awarded_amount = awarded_amount,
                                     !.estimated_value = estimated_value]
        IN Setup(t, CompaniesWith(0, <<>>), DirectorsKnown(DirectorIds),
                 OfficialsWith(EmptyDict), BidsOn({"c1"}), PlainGraph, <<>>,
                 TenderMap({t}))

\* price anomaly: the other tenders of the category vary
InitComparable ==
    \E awarded_amount \in {None, Some(100), Some(151), Some(160)},
       others \in {o \in SUBSET OtherTenders :
                      Cardinality({t \in o : /\ t.category = "Works"
                                            /\ t.status = "AWARDED"}) \in {0, 1, 2}},
       category \in {"Works", "Goods"} :
        LET t == [PlainTender EXCEPT !.awarded_amount = awarded_amount,
                                     !.category = category]
        IN Setup(t, CompaniesWith(0, <<>>), DirectorsKnown(DirectorIds),
                 OfficialsWith(EmptyDict), BidsOn({"c1"}), PlainGraph, <<>>,
                 TenderMap({t} \cup others))

\* price anomaly: the tender t2, awarded at 40, is the value of two keys of
\* all_tenders, and a third tender of the category is awarded at 200
InitSameTenderTwice ==
    \E awarded_amount \in {Some(100), Some(151), Some(160)} :
        LET t == [PlainTender EXCEPT !.awarded_amount = awarded_amount]
            t2 == Tender("t2", "Works", 100, 0, MaxAge, "AWARDED", Some("c2"),
                         Some(40), None)
            t3 == Tender("t3", "Works", 100, 0, MaxAge, "AWARDED", Some("c2"),
                         Some(200), None)
        IN Setup(t, CompaniesWith(0, <<>>), DirectorsKnown(DirectorIds),
                 OfficialsWith(EmptyDict), BidsOn({"c1"}), PlainGraph, <<>>,
                 Put(Put(Put(TenderMap({t}), "t3", t3), "t2", t2), "t9", t2))

\* rushed timeline: published date, deadline, status and award vary
InitTimeline ==
    \E deadline \in Deadlines, published_date \in PublishedDates,
       status \in TenderStatus, awarded_to \in {None, Some("c1")} :
        LET t == [PlainTender EXCEPT !.deadline = deadline,
                                     !.published_date = published_date,
                                     !.status = status,
                                     !.awarded_to = awarded_to]
        IN Setup(t, CompaniesWith(0, <<>>), DirectorsKnown(DirectorIds),
                 OfficialsWith(EmptyDict), BidsOn({"c1"}), PlainGraph, <<>>,
                 TenderMap({t}))

\* all five rules vary together
InitCombined ==
    \E related \in {EmptyDict, Related(<<"d1">>, "SIBLING")},
       g \in {PlainGraph, ShortPathGraph},
       clusters \in {<<>>, <<{"c1", "c2", "c3"}>>},
       registration_date \in {0, MaxAge - 89, MaxAge - 4},
       awarded_amount \in {None, Some(100), Some(151)},
       published_date \in {MaxAge - MaxWindow, MaxAge - 7, MaxAge - 5},
       awarded_to \in {None, Some("c1")} :
        LET t == [PlainTender EXCEPT !.published_date = published_date,
                                     !.awarded_amount = awarded_amount,
                                     !.awarded_to = awarded_to]
        IN Setup(t, CompaniesWith(registration_date, <<"d1">>),
                 DirectorsKnown(DirectorIds), OfficialsWith(related),
                 BidsOn({"c1", "c2", "c3"}), g, clusters, TenderMap({t}))

Init ==
    \/ InitConflict
    \/ InitMissing
    \/ InitCartel
    \/ InitShell
    \/ InitPrice
    \/ InitComparable
    \/ InitSameTenderTwice
    \/ InitTimeline
    \/ InitCombined

inputs == <<tender, companies, directors, officials, bids, graph,
            cartel_clusters, all_tenders, min_co_bids, risk_factors,
            risk_category>>

\* winner and tender_bids as compute_risk_score derives them (lines 43-44)
Winner ==
    IF Truthy(tender.awarded_to, "") THEN Get(companies, tender.awarded_to[1])
    ELSE None

TenderBids == SelectSeq(bids, LAMBDA b : b.tender_id = tender.id)

\* faulty variant of Call: the call empties the bid list it was given
CallConsumingBids(name, outcome) ==
    /\ pc = "ready"
    /\ pc' = name
    /\ ret' = outcome
    /\ bids' = <<>>
    /\ UNCHANGED <<tender, companies, directors, officials, graph,
                   cartel_clusters, all_tenders, min_co_bids, risk_factors,
                   risk_category, globals>>

\* A call of a function of engine.py or builder.py: the functions assign to
\* their own locals only, so the arguments are after the call what they were
\* before it.
Call(name, outcome) ==
    /\ pc = "ready"
    /\ pc' = name
    /\ ret' = outcome
    /\ UNCHANGED <<inputs, globals>>

CallCheckConflictOfInterest ==
    Call("check_conflict_of_interest",
         check_conflict_of_interest(tender, Winner, directors, officials, graph))

CallCheckCartelPattern ==
    Call("check_cartel_pattern",
         Returned(check_cartel_pattern(tender, TenderBids, companies,
                                       cartel_clusters)))

CallCheckShellCompany ==
    Call("check_shell_company", Returned(check_shell_company(tender, Winner)))

CallCheckPriceAnomaly ==
    Call("check_price_anomaly", Returned(check_price_anomaly(tender, all_tenders)))

CallCheckRushedTimeline ==
    Call("check_rushed_timeline", Returned(check_rushed_timeline(tender)))

CallComputeRiskScore ==
    Call("compute_risk_score",
         compute_risk_score(tender, companies, directors, officials, bids,
                            graph, cartel_clusters, all_tenders))

Next ==
    \/ CallCheckConflictOfInterest
    \/ CallCheckCartelPattern
    \/ CallCheckShellCompany
    \/ CallCheckPriceAnomaly
    \/ CallCheckRushedTimeline
    \/ CallComputeRiskScore

Spec == Init /\ [][Next]_vars

----------------------------------------------------------------------------
(* Specification SpecClusters: calls of find_cartel_clusters.              *)
(* Init draws a bid list, a threshold and a relationship graph.            *)

ClusterTenders == <<"t1", "t2", "t3">>
ClusterCompanies == <<"c1", "c2", "c3", "c4", "c5", "c6">>

\* a bid of every company on every tender, tender by tender
AllBids ==
    [i \in 1..(Len(ClusterTenders) * Len(ClusterCompanies)) |->
        Bid(ClusterTenders[((i - 1) \div Len(ClusterCompanies)) + 1],
            ClusterCompanies[((i - 1) % Len(ClusterCompanies)) + 1])]

\* the bid list in which the companies of bidders[t] bid on tender t; with
\* repeated, the first bid is placed a second time
BidList(bidders, repeated) ==
    LET once == SelectSeq(AllBids, LAMBDA b : b.company_id \in bidders[b.tender_id])
    IN IF repeated /\ once # <<>> THEN Append(once, once[1]) ELSE once

\* companies joined by edges of the relationship graph (c1 - c4 - c2), as
\* shared addresses or phones join them
RelatedCompaniesGraph ==
    GraphOf([i \in DOMAIN ClusterCompanies |-> <<ClusterCompanies[i]>>]
            \o <<<<"c1", "c4">>, <<"c2", "c4">>>>)

SetupClusters(bs, g, m) ==
    /\ ImportMain
    /\ risk_factors = <<>>
    /\ risk_category = LOW
    /\ tender = PlainTender
    /\ companies = CompaniesWith(0, <<>>)
    /\ directors = DirectorsKnown(DirectorIds)
    /\ officials = OfficialsWith(EmptyDict)
    /\ bids = bs
    /\ graph = g
    /\ cartel_clusters = <<>>
    /\ all_tenders = TenderMap({PlainTender})
    /\ min_co_bids = m
    /\ pc = "ready"
    /\ ret = Returned(None)

\* every way four companies can bid on three tenders, once with each bid
\* placed once and no edge in the graph, once with a repeated bid and edges
InitFewCompanies ==
    \E bidders \in [Range(ClusterTenders) -> SUBSET CompanyIds],
       m \in 1..MaxMinCoBids,
       variant \in {<<FALSE, PlainGraph>>, <<TRUE, RelatedCompaniesGraph>>} :
        SetupClusters(BidList(bidders, variant[1]), variant[2], m)

\* two groups of three companies, which can make two clusters
InitTwoGroups ==
    \E bidders \in [Range(ClusterTenders) ->
                       {{}, {"c1", "c2", "c3"}, {"c4", "c5", "c6"},
                        {"c3", "c4"}, Range(ClusterCompanies)}],
       m \in 1..MaxMinCoBids :
        SetupClusters(BidList(bidders, FALSE), RelatedCompaniesGraph, m)

InitClusters ==
    \/ InitFewCompanies
    \/ InitTwoGroups

CallFindCartelClusters ==
    \E cartels \in find_cartel_clusters(graph, bids, min_co_bids) :
        Call("find_cartel_clusters", Returned(cartels))

NextClusters == CallFindCartelClusters

SpecClusters == InitClusters /\ [][NextClusters]_vars

----------------------------------------------------------------------------
(* Specification SpecPaths: calls of find_conflict_path.                   *)
(* Init draws the graph and the two identifiers, which the tender names.   *)

\* two routes of two hops from c1 to o1
DiamondEdges ==
    {<<"c1", "d1">>, <<"c1", "d2">>, <<"d1", "o1">>, <<"d2", "o1">>}

\* path search: the edges of the diamond are added in every order, alone or
\* followed by further edges
InitPaths ==
    \E order \in Orderings(DiamondEdges),
       further \in {<<>>, <<<<"d1", "d2">>>>,
                    <<<<"c1", "t1">>, <<"t1", "o1">>>>} :
        Setup(PlainTender, CompaniesWith(0, <<>>), DirectorsKnown(DirectorIds),
              OfficialsWith(EmptyDict), BidsOn({"c1"}),
              GraphOf([i \in DOMAIN GraphNodes |-> <<GraphNodes[i]>>]
                      \o order \o further),
              <<>>, TenderMap({PlainTender}))

InitSearch ==
    \/ InitConflict
    \/ InitMissing
    \/ InitPaths

\* find_conflict_path between the awarded company and the procurement
\* officer the tender names, whether or not the maps or the graph hold them
CallFindConflictPath ==
    /\ Truthy(tender.awarded_to, "")
    /\ Truthy(tender.procurement_officer_id, "")
    /\ Call("find_conflict_path",
            find_conflict_path(graph, tender.awarded_to[1],
                               tender.procurement_officer_id[1]))

NextSearch == CallFindConflictPath

SpecPaths == InitSearch /\ [][NextSearch]_vars

----------------------------------------------------------------------------
(* Specification SpecBuild: calls of build_procurement_graph.  Init draws  *)
(* the maps and the bid list; all_tenders is the tender map.               *)

\* the tender t1 with the given award and officer
BuildTender(awarded_to, procurement_officer_id) ==
    Tender("t1", "Works", 100, 0, MaxAge, "AWARDED", awarded_to, Some(100),
           procurement_officer_id)

\* t2 is awarded to c2 and names no officer
SecondTender ==
    Tender("t2", "Works", 100, 0, MaxAge, "AWARDED", Some("c2"), Some(40), None)

\* bid lists: none, one, a repeated pair, unknown ids, bids on two tenders
BidLists ==
    {<<>>,
     <<Bid("t1", "c1")>>,
     <<Bid("t1", "c1"), Bid("t1", "c2"), Bid("t1", "c1")>>,
     <<Bid("t1", "c9"), Bid("t9", "c1")>>,
     <<Bid("t1", "c2"), Bid("t2", "c2"), Bid("t2", "c1"), Bid("t9", "c9")>>}

\* the company ids a director can list, known or not
CompanyIdLists == {<<>>, <<"c1">>, <<"c9">>, <<"c1", "c9", "c2">>}

\* related persons of the official, known directors or not
BuildRelatedPersons ==
    {EmptyDict,
     Related(<<"d1">>, "SIBLING"),
     Related(<<"d9">>, "SPOUSE"),
     Related(<<"d1", "d2", "d9">>, "BUSINESS_PARTNER"),
     Related(<<"d2", "d9", "d1">>, "BUSINESS_PARTNER")}

\* three companies with every choice of address and phone
InitShared ==
    \E address \in [{"c1", "c2", "c3"} -> {PLOT_45_X, PLOT_45B_Y, PLOT_46, NO_PLOT}],
       phone \in [{"c1", "c2", "c3"} -> {PHONE_SPACED, PHONE_DASHED, PHONE_OTHER}] :
        Setup(BuildTender(Some("c1"), Some("o1")),
              DictOf(InsertionOrder,
                     [c \in {"c1", "c2", "c3"} |->
                         CompanyAt(c, address[c], phone[c])]),
              DirectorsKnown({"d1"}), OfficialsWith(Related(<<"d1">>, "SIBLING")),
              <<Bid("t1", "c1"), Bid("t1", "c2")>>, PlainGraph, <<>>,
              TenderMap({BuildTender(Some("c1"), Some("o1"))}))

\* references between the maps, to known and to unknown ids
InitReferences ==
    \E known \in {{"d1"}, {"d1", "d2"}}, company_ids \in CompanyIdLists,
       related_persons \in BuildRelatedPersons, bs \in BidLists,
       procurement_officer_id \in {None, Some(""), Some("o1"), Some("o9")},
       awarded_to \in {None, Some("c1"), Some("c9")} :
        Setup(BuildTender(awarded_to, procurement_officer_id),
              DictOf(InsertionOrder,
                     [c \in {"c1", "c2"} |->
                         CompanyAt(c, IF c = "c1" THEN PLOT_45_X ELSE PLOT_46,
                                   IF c = "c1" THEN PHONE_NONE ELSE PHONE_EMPTY)]),
              DictOf(InsertionOrder,
                     [d \in known |->
                         Director(d, IF d = "d1" THEN company_ids ELSE <<"c2">>)]),
              OfficialsWith(related_persons), bs, PlainGraph, <<>>,
              TenderMap({BuildTender(awarded_to, procurement_officer_id),
                         SecondTender}))

InitBuild ==
    \/ InitShared
    \/ InitReferences

CallBuildProcurementGraph ==
    Call("build_procurement_graph",
         Returned(Some(build_procurement_graph(all_tenders, companies, directors,
                                               officials, bids))))

NextBuild == CallBuildProcurementGraph

SpecBuild == InitBuild /\ [][NextBuild]_vars

----------------------------------------------------------------------------
(* Specification SpecAddresses: calls of _addresses_similar on the         *)
(* addresses of the companies c1 and c2.                                   *)

InitAddresses ==
    \E addr1 \in Addresses, addr2 \in Addresses :
        Setup(PlainTender,
              DictOf(InsertionOrder,
                     [c \in {"c1", "c2"} |->
                         CompanyAt(c, IF c = "c1" THEN addr1 ELSE addr2,
                                   PHONE_EMPTY)]),
              DirectorsKnown(DirectorIds), OfficialsWith(EmptyDict), <<>>,
              PlainGraph, <<>>, TenderMap({PlainTender}))

CallAddressesSimilar ==
    Call("addresses_similar",
         Returned(Some(addresses_similar(companies.at["c1"].address,
                                         companies.at["c2"].address))))

NextAddresses == CallAddressesSimilar

SpecAddresses == InitAddresses /\ [][NextAddresses]_vars

----------------------------------------------------------------------------
(* Specification SpecRecommend: calls of generate_recommendation on a      *)
(* factor list and a category drawn independently of each other.           *)

MaxFactors == 3       \* length of a factor list passed to generate_recommendation

\* a factor of each type, and a second conflict factor of the lower weight
SomeFactors ==
    {RiskFactor(t, <<>>, RISK_WEIGHTS(t), <<>>, <<>>) : t \in RiskFactorType}
    \cup {RiskFactor(CONFLICT_OF_INTEREST, <<>>,
                     RISK_WEIGHTS(CONFLICT_OF_INTEREST) - 10, <<>>, <<>>)}

InitRecommend ==
    \E fs \in ListsUpTo(SomeFactors, MaxFactors), c \in {LOW, MEDIUM, HIGH} :
        /\ ImportMain
        /\ risk_factors = fs
        /\ risk_category = c
        /\ tender = PlainTender
        /\ companies = CompaniesWith(0, <<>>)
        /\ directors = DirectorsKnown(DirectorIds)
        /\ officials = OfficialsWith(EmptyDict)
        /\ bids = <<>>
        /\ graph = PlainGraph
        /\ cartel_clusters = <<>>
        /\ all_tenders = TenderMap({PlainTender})
        /\ min_co_bids = DEFAULT_MIN_CO_BIDS
        /\ pc = "ready"
        /\ ret = Returned(None)

CallGenerateRecommendation ==
    Call("generate_recommendation",
         Returned(Some(generate_recommendation(risk_factors, risk_category))))

NextRecommend == CallGenerateRecommendation

SpecRecommend == InitRecommend /\ [][NextRecommend]_vars

----------------------------------------------------------------------------
(* Specification SpecScores: calls of compute_all_risk_scores on a dataset *)
(* of three or four tenders and on the graph built from it, or on an empty *)
(* graph.                                                                  *)

\* the phones '07 1', '07-1', '073', '07 3', '075' and '076' of c1..c6
ScoredPhones ==
    [c1 |-> PHONE_SPACED, c2 |-> PHONE_DASHED,
     c3 |-> <<"0", "7", "3">>, c4 |-> <<"0", "7", " ", "3">>,
     c5 |-> <<"0", "7", "5">>, c6 |-> <<"0", "7", "6">>]

\* the companies c1..c6, c1 with director d1; c1 and c2 share a phone, and
\* so do c3 and c4
ScoredCompanies ==
    DictOf(<<"c1", "c2", "c3", "c4", "c5", "c6">>,
           [c \in {"c1", "c2", "c3", "c4", "c5", "c6"} |->
               [CompanyAt(c, NO_PLOT, ScoredPhones[c])
                   EXCEPT !.director_ids = IF c = "c1" THEN <<"d1">> ELSE <<>>]])

\* tender t of officer o1: t1 is published 5 days before the deadline, t2 is
\* awarded at 160 for an estimate of 100
ScoredTender(t, awarded_to) ==
    Tender(t, "Works", 100, IF t = "t1" THEN MaxAge - 5 ELSE 0, MaxAge,
           IF awarded_to = None THEN "EVALUATION" ELSE "AWARDED", awarded_to,
           IF awarded_to = None THEN None
           ELSE IF t = "t2" THEN Some(MaxAwarded) ELSE Some(100),
           Some("o1"))

\* the bids of the companies of bidders[t] on each tender t, tender by tender
BidsOnEach(ts, bidders) ==
    Flatten([i \in DOMAIN ts |->
                LET chosen == SelectSeq(Keys(ScoredCompanies),
                                        LAMBDA c : c \in bidders[ts[i]])
                IN [k \in DOMAIN chosen |-> Bid(ts[i], chosen[k])]])

SetupScores(ts, awarded_to, bidders, related, built) ==
    /\ ImportMain
    /\ risk_factors = <<>>
    /\ risk_category = LOW
    /\ tender = ScoredTender(ts[1], awarded_to[ts[1]])
    /\ companies = ScoredCompanies
    /\ directors = DirectorsKnown(DirectorIds)
    /\ officials = OfficialsWith(related)
    /\ bids = BidsOnEach(ts, bidders)
    /\ all_tenders = DictOf(ts, [t \in Range(ts) |->
                                    ScoredTender(t, awarded_to[t])])
    /\ graph = IF built
               THEN build_procurement_graph(
                        DictOf(ts, [t \in Range(ts) |->
                                       ScoredTender(t, awarded_to[t])]),
                        ScoredCompanies, DirectorsKnown(DirectorIds),
                        OfficialsWith(related), BidsOnEach(ts, bidders))
               ELSE GraphOf(<<>>)
    /\ cartel_clusters = <<>>
    /\ min_co_bids = DEFAULT_MIN_CO_BIDS
    /\ pc = "ready"
    /\ ret = Returned(None)

\* three tenders, each with c1 alone or with c1, c2 and c3 bidding, awarded
\* to c1, to c4 (which placed no bid) or not yet awarded
InitThreeTenders ==
    \E bidders \in [{"t1", "t2", "t3"} -> {{"c1"}, {"c1", "c2", "c3"}}],
       awarded_to \in [{"t1", "t2", "t3"} -> {None, Some("c1"), Some("c4")}],
       related \in {EmptyDict, Related(<<"d1">>, "SIBLING")},
       built \in BOOLEAN :
        SetupScores(<<"t1", "t2", "t3">>, awarded_to, bidders, related, built)

\* four tenders and two groups of three companies, which make one or two
\* clusters
InitFourTenders ==
    \E bidders \in [{"t1", "t2", "t3", "t4"} ->
                       {{"c1", "c2", "c3"}, {"c4", "c5", "c6"},
                        {"c1", "c2", "c3", "c4", "c5", "c6"}}] :
        SetupScores(<<"t1", "t2", "t3", "t4">>,
                    [t \in {"t1", "t2", "t3", "t4"} |->
                        IF t = "t1" THEN Some("c1") ELSE None],
                    bidders, EmptyDict, TRUE)

InitScores ==
    \/ InitThreeTenders
    \/ InitFourTenders

CallComputeAllRiskScores ==
    /\ \E outcome \in compute_all_risk_scores(all_tenders, companies, directors,
                                               officials, bids, graph) :
          Call("compute_all_risk_scores", outcome)

NextScores == CallComputeAllRiskScores

SpecScores == InitScores /\ [][NextScores]_vars

----------------------------------------------------------------------------
(* Specification SpecPipeline: the four functions of the pipeline and the  *)
(* conflict rule, each called on the datasets of SpecScores.               *)

NextPipeline ==
    \/ CallCheckConflictOfInterest
    \/ CallBuildProcurementGraph
    \/ CallFindCartelClusters
    \/ CallComputeRiskScore
    \/ CallComputeAllRiskScores

SpecPipeline == InitScores /\ [][NextPipeline]_vars

----------------------------------------------------------------------------
(* Specification SpecApp: main.py.  The application starts with the        *)
(* globals of the module body, runs the statements of lifespan up to its   *)
(* yield one after the other, and then serves requests: the server accepts *)
(* a request only after the startup part of lifespan has completed.  pc is *)
(* the position in lifespan and, once a request was served, the name of    *)
(* its handler; ret is the outcome of the last request.                    *)

\* the positions before lifespan reaches its yield
StartupPositions == {"import", "loaded", "built", "scored"}

\* the positions at which no request is served any more: startup ended in an
\* exception, or the server was shut down
EndPositions == {"failed", "stopped"}

\* the parameters of the requests
RequestTenderIds == KeySet(get_data_store.at.tenders) \cup {"tender-999"}
RequestCompanyIds == KeySet(get_data_store.at.companies) \cup {"comp-999"}
RequestDepths == 1..3
RequestLimits == {1, 5, 50}
RequestSortKeys == {"risk", "value", "date", "name"}

InitApp ==
    /\ ImportMain
    /\ pc = "import"
    /\ ret = Returned(None)
    /\ risk_factors = <<>>
    /\ risk_category = LOW
    /\ tender = PlainTender
    /\ companies = EmptyDict
    /\ directors = EmptyDict
    /\ officials = EmptyDict
    /\ bids = <<>>
    /\ graph = EmptyGraph
    /\ cartel_clusters = <<>>
    /\ all_tenders = EmptyDict
    /\ min_co_bids = DEFAULT_MIN_CO_BIDS

\* line 36: DATA_STORE = get_data_store()
LoadData ==
    /\ pc = "import"
    /\ DATA_STORE' = get_data_store
    /\ pc' = "loaded"
    /\ UNCHANGED <<inputs, GRAPH, RISK_SCORES, ret>>

\* lines 39-45: GRAPH = build_procurement_graph(...)
BuildGraph ==
    /\ pc = "loaded"
    /\ GRAPH' = Some(build_procurement_graph(
                         DATA_STORE.at.tenders, DATA_STORE.at.companies,
                         DATA_STORE.at.directors, DATA_STORE.at.officials,
                         DATA_STORE.at.bids))
    /\ pc' = "built"
    /\ UNCHANGED <<inputs, DATA_STORE, RISK_SCORES, ret>>

\* lines 48-55: RISK_SCORES = compute_all_risk_scores(...); an exception of
\* the call ends the startup
ComputeScores ==
    /\ pc = "built"
    /\ \E outcome \in compute_all_risk_scores(
                           DATA_STORE.at.tenders, DATA_STORE.at.companies,
                           DATA_STORE.at.directors, DATA_STORE.at.officials,
                           DATA_STORE.at.bids, GRAPH[1]) :
          IF outcome.raised = ""
          THEN RISK_SCORES' = outcome.value[1] /\ pc' = "scored"
          ELSE RISK_SCORES' = RISK_SCORES /\ pc' = "failed"
    /\ UNCHANGED <<inputs, DATA_STORE, GRAPH, ret>>

\* lines 58-60: the risk level of every scored tender that is a node
WithRiskLevels(G, scores) ==
    [G EXCEPT !.risk_level =
        [n \in DOMAIN G.risk_level \cup (KeySet(scores) \cap Nodes(G)) |->
            IF n \in KeySet(scores) THEN scores.at[n].category
            ELSE G.risk_level[n]]]

\* lines 58-66: the loop over RISK_SCORES, then the yield
AnnotateGraph ==
    /\ pc = "scored"
    /\ GRAPH' = Some(WithRiskLevels(GRAPH[1], RISK_SCORES))
    /\ pc' = "serving"
    /\ UNCHANGED <<inputs, DATA_STORE, RISK_SCORES, ret>>

\* faulty variant of Request: requests are served while lifespan is still
\* filling the globals
RequestDuringStartup(name, outcome) ==
    /\ pc \notin EndPositions
    /\ pc' = name
    /\ ret' = outcome
    /\ UNCHANGED <<inputs, globals>>

\* A request served by the handler of the given name: after the yield of
\* lifespan only; no handler assigns a global.
Request(name, outcome) ==
    /\ pc \notin StartupPositions \cup EndPositions
    /\ pc' = name
    /\ ret' = outcome
    /\ UNCHANGED <<inputs, globals>>

ServeRoot == Request("root", root)

ServeDashboardStats == Request("get_dashboard_stats", get_dashboard_stats)

ServeTenders ==
    \E risk_level \in {None} \cup {Some(c) : c \in {HIGH, MEDIUM, LOW}},
       status \in {None} \cup {Some(x) : x \in TenderStatus},
       sort_by \in RequestSortKeys, limit \in RequestLimits :
        Request("get_tenders", get_tenders(risk_level, status, sort_by, limit))

ServeTenderDetail ==
    \E tender_id \in RequestTenderIds :
        Request("get_tender_detail", get_tender_detail(tender_id))

ServeTenderGraph ==
    \E tender_id \in RequestTenderIds, depth \in RequestDepths :
        Request("get_tender_graph", get_tender_graph(tender_id, depth))

ServeFullGraph == Request("get_full_graph", get_full_graph)

ServeCartelClusters ==
    \E outcome \in get_cartel_clusters : Request("get_cartel_clusters", outcome)

ServeCompany ==
    \E company_id \in RequestCompanyIds :
        Request("get_company", get_company(company_id))

\* lines 68-69: the part of lifespan after the yield
Shutdown ==
    /\ pc \notin StartupPositions \cup EndPositions
    /\ pc' = "stopped"
    /\ UNCHANGED <<inputs, globals, ret>>

NextApp ==
    \/ LoadData
    \/ BuildGraph
    \/ ComputeScores
    \/ AnnotateGraph
    \/ ServeRoot
    \/ ServeDashboardStats
    \/ ServeTenders
    \/ ServeTenderDetail
    \/ ServeTenderGraph
    \/ ServeFullGraph
    \/ ServeCartelClusters
    \/ ServeCompany
    \/ Shutdown

SpecApp == InitApp /\ [][NextApp]_vars

----------------------------------------------------------------------------
(* The claims.  A call has been made when pc names it; ret is its outcome. *)

\* the factor a rule returned
Factor == ret.value[1]

\* the RiskScore compute_risk_score returned
Score == ret.value[1]

\* the sum of the weights of the first n factors
RECURSIVE WeightTotal(_, _)
WeightTotal(factors, n) ==
    IF n = 0 THEN 0 ELSE WeightTotal(factors, n - 1) + factors[n].weight

\* C1: for every input on which compute_risk_score returns a RiskScore,
\* 0 <= overall <= 100 and overall = min(100, sum of the weights of the
\* factors in its factor list).
C1_OverallIsCappedSum ==
    (pc = "compute_risk_score" /\ ret.raised = "") =>
        LET total == WeightTotal(Score.factors, Len(Score.factors))
        IN /\ Score.overall \in 0..100
           /\ Score.overall = (IF total < 100 THEN total ELSE 100)

\* all five rules fire and the score is 100
C1_Witness ==
    /\ pc = "compute_risk_score"
    /\ ret.raised = ""
    /\ Len(Score.factors) = 5
    /\ Score.overall = 100

\* the category the boundaries give to a score
CategoryAt(overall) ==
    CHOOSE category \in {HIGH, MEDIUM, LOW} :
        /\ overall >= 50 => category = HIGH
        /\ (25 <= overall /\ overall < 50) => category = MEDIUM
        /\ overall < 25 => category = LOW

\* C2: the category depends on overall only: overall >= 50 is HIGH,
\* 25 <= overall < 50 is MEDIUM, overall < 25 is LOW; 50 is HIGH, 49 and 25
\* are MEDIUM, 24 is LOW.
C2_CategoryBoundaries ==
    /\ (pc = "compute_risk_score" /\ ret.raised = "") =>
           Score.category = CategoryAt(Score.overall)
    /\ \A overall \in 0..SCORE_CAP : CategoryOf(overall) = CategoryAt(overall)
    /\ CategoryOf(50) = HIGH
    /\ CategoryOf(49) = MEDIUM
    /\ CategoryOf(25) = MEDIUM
    /\ CategoryOf(24) = LOW

\* a returned score of exactly 50, which is HIGH
C2_Witness ==
    /\ pc = "compute_risk_score"
    /\ ret.raised = ""
    /\ Score.overall = 50
    /\ Score.category = HIGH

\* the tender has an awarded company of the company map and a procurement
\* officer of the official map
WinnerAndOfficialPresent ==
    /\ Winner # None
    /\ Truthy(tender.procurement_officer_id, "")
    /\ tender.procurement_officer_id[1] \in KeySet(officials)

RelatedPersons == officials.at[tender.procurement_officer_id[1]].related_persons

\* the positions of the winner's directors that are keys of the official's
\* related-person map
DirectMatches ==
    {i \in DOMAIN Winner[1].director_ids :
        Winner[1].director_ids[i] \in KeySet(RelatedPersons)}

\* C3: with winner and official present, if a director id of the winner is a
\* key of the official's related-person map, check_conflict_of_interest
\* returns one conflict-of-interest factor of weight 30 whose description names
\* the relationship of the first such director, whatever paths the graph has;
\* compute_risk_score then lists exactly one conflict-of-interest factor, of
\* weight 30.
C3_DirectConflict ==
    (WinnerAndOfficialPresent /\ DirectMatches # {}) =>
        /\ pc = "check_conflict_of_interest" =>
               /\ ret.raised = ""
               /\ ret.value # None
               /\ Factor.type = CONFLICT_OF_INTEREST
               /\ Factor.weight = 30
               /\ \E i \in DirectMatches :
                      /\ \A j \in DirectMatches : i <= j
                      /\ Factor.description.kind = "direct"
                      /\ Factor.description.relationship =
                             RelationshipText(RelatedPersons.at[Winner[1].director_ids[i]])
        /\ pc = "compute_risk_score" =>
               /\ ret.raised = ""
               /\ \E i \in DOMAIN Score.factors :
                      /\ Score.factors[i].type = CONFLICT_OF_INTEREST
                      /\ Score.factors[i].weight = 30
                      /\ \A j \in DOMAIN Score.factors :
                             Score.factors[j].type = CONFLICT_OF_INTEREST => j = i

\* a direct match on the second director only, in a graph that also joins
\* the winner and the official by an edge
C3_Witness ==
    /\ pc = "check_conflict_of_interest"
    /\ WinnerAndOfficialPresent
    /\ DirectMatches = {2}
    /\ HasEdge(graph, Winner[1].id, tender.procurement_officer_id[1])
    /\ Factor.weight = 30

\* t can be reached from s over at most n edges of G
RECURSIVE Linked(_, _, _, _)
Linked(G, s, t, n) ==
    IF n = 0 THEN s = t /\ HasNode(G, s)
    ELSE \/ Linked(G, s, t, n - 1)
         \/ \E x \in Nodes(G) : HasEdge(G, s, x) /\ Linked(G, x, t, n - 1)

\* p is a path of G from s to t
IsPath(G, p, s, t) ==
    /\ p # <<>>
    /\ p[1] = s
    /\ p[Len(p)] = t
    /\ \A i \in 1..(Len(p) - 1) : HasEdge(G, p[i], p[i + 1])

\* C4: with winner and official present and no director of the winner a key
\* of the related-person map, check_conflict_of_interest returns a factor of
\* weight 20 citing a shortest path from the winner to the official if and
\* only if the graph joins them by at most 3 hops (4 nodes); otherwise no
\* factor comes out of the call (it returns none, or the path search raises
\* because one of the two is no node of the graph).
C4_IndirectConflict ==
    (/\ pc = "check_conflict_of_interest"
     /\ WinnerAndOfficialPresent
     /\ DirectMatches = {}) =>
        LET company_id == Winner[1].id
            official_id == tender.procurement_officer_id[1]
        IN IF Linked(graph, company_id, official_id, 3)
           THEN /\ ret.raised = ""
                /\ ret.value # None
                /\ Factor.type = CONFLICT_OF_INTEREST
                /\ Factor.weight = 20
                /\ Factor.description.kind = "path"
                /\ IsPath(graph, Factor.related_entity_ids, company_id, official_id)
                /\ Len(Factor.related_entity_ids) <= 4
                /\ ~Linked(graph, company_id, official_id,
                           Len(Factor.related_entity_ids) - 2)
                /\ Factor.evidence.path = Factor.related_entity_ids
                /\ Factor.evidence.path_length = Len(Factor.related_entity_ids) - 1
           ELSE ret.value = None

\* a shortest path of exactly 3 hops is cited at weight 20
C4_Witness ==
    /\ pc = "check_conflict_of_interest"
    /\ WinnerAndOfficialPresent
    /\ DirectMatches = {}
    /\ ret.value # None
    /\ Len(Factor.related_entity_ids) = 4
    /\ Factor.weight = 20

\* C5: with an awarded company present and age = deadline - registration
\* date in days, check_shell_company returns weight 20 when age < 30, weight
\* 10 when 30 <= age < 90 and no factor when age >= 90; with no awarded
\* company (none named, or one that is no key of the company map) it returns
\* no factor.
C5_ShellCompany ==
    pc = "check_shell_company" =>
        /\ ret.raised = ""
        /\ IF Winner = None THEN ret.value = None
           ELSE LET age == tender.deadline - Winner[1].registration_date
                IN /\ age < 30 =>
                       /\ ret.value # None
                       /\ Factor.type = SHELL_COMPANY
                       /\ Factor.weight = 20
                   /\ (30 <= age /\ age < 90) =>
                       /\ ret.value # None
                       /\ Factor.type = SHELL_COMPANY
                       /\ Factor.weight = 10
                   /\ age >= 90 => ret.value = None

\* a company exactly 30 days old gets weight 10
C5_Witness ==
    /\ pc = "check_shell_company"
    /\ Winner # None
    /\ tender.deadline - Winner[1].registration_date = 30
    /\ ret.value # None
    /\ Factor.weight = 10

\* C6: with window = deadline - published date in days,
\* check_rushed_timeline returns weight 10 when window <= 5, weight 5 when
\* 5 < window <= 7 and no factor when window > 7, whatever the tender's
\* status and award.
C6_RushedTimeline ==
    pc = "check_rushed_timeline" =>
        LET window == tender.deadline - tender.published_date
        IN /\ ret.raised = ""
           /\ window <= 5 =>
               /\ ret.value # None
               /\ Factor.type = RUSHED_TIMELINE
               /\ Factor.weight = 10
           /\ (5 < window /\ window <= 7) =>
               /\ ret.value # None
               /\ Factor.type = RUSHED_TIMELINE
               /\ Factor.weight = 5
           /\ window > 7 => ret.value = None

\* a window of exactly 7 days on a tender that is not awarded gets weight 5
C6_Witness ==
    /\ pc = "check_rushed_timeline"
    /\ tender.deadline - tender.published_date = 7
    /\ tender.status # "AWARDED"
    /\ tender.awarded_to = None
    /\ ret.value # None
    /\ Factor.weight = 5

\* C7: when awarded amount and estimated value are both present,
\* check_price_anomaly returns no factor if awarded/estimated <= 1.5 and one
\* factor of weight 15 if the ratio is above 1.5, reporting as percent above
\* estimate the integer floor of (ratio - 1) x 100; when an amount is missing
\* it returns no factor.
C7_PercentIsFloorOfRatio ==
    pc = "check_price_anomaly" =>
        IF ~Truthy(tender.awarded_amount, 0) \/ tender.estimated_value = 0
        THEN ret.value = None
        ELSE LET awarded == tender.awarded_amount[1]
                 estimated == tender.estimated_value
             IN IF 2 * awarded <= 3 * estimated THEN ret.value = None
                ELSE /\ ret.value # None
                     /\ Factor.type = PRICE_ANOMALY
                     /\ Factor.weight = 15
                     /\ Factor.description.percentage =
                            ((awarded - estimated) * 100) \div estimated

\* awarded 14 against an estimate of 5 (ratio 2.8) is reported as 179 percent
C7_Witness ==
    /\ pc = "check_price_anomaly"
    /\ tender.awarded_amount = Some(14)
    /\ tender.estimated_value = 5
    /\ ret.value # None
    /\ Factor.description.percentage = 179

\* the companies that bid on the tender
Bidders == {bids[i].company_id : i \in {j \in DOMAIN bids : bids[j].tender_id = tender.id}}

\* the positions of the clusters sharing 3 or more members with the bidders
QualifyingClusters ==
    {i \in DOMAIN cartel_clusters : Cardinality(Bidders \cap cartel_clusters[i]) >= 3}

\* C8: check_cartel_pattern returns one factor of weight 25 if and only if
\* some cluster shares 3 or more members with the companies that bid on the
\* tender; the factor's related entities are the intersection of the bidders
\* with the first such cluster in list order.
C8_CartelPattern ==
    pc = "check_cartel_pattern" =>
        /\ ret.raised = ""
        /\ (ret.value # None) <=> (QualifyingClusters # {})
        /\ ret.value # None =>
               /\ Factor.type = CARTEL_PATTERN
               /\ Factor.weight = 25
               /\ \E i \in QualifyingClusters :
                      /\ \A j \in QualifyingClusters : i <= j
                      /\ Factor.related_entity_ids = Bidders \cap cartel_clusters[i]

\* two clusters qualify with different intersections and the first is reported
C8_Witness ==
    /\ pc = "check_cartel_pattern"
    /\ QualifyingClusters = {1, 2}
    /\ Bidders \cap cartel_clusters[1] # Bidders \cap cartel_clusters[2]
    /\ ret.value # None
    /\ Factor.related_entity_ids = Bidders \cap cartel_clusters[1]

\* the companies of the bid list
BiddingCompanies == {bids[i].company_id : i \in DOMAIN bids}

\* the number of tenders both a and b placed a bid on
Together(a, b) ==
    Cardinality({t \in {bids[i].tender_id : i \in DOMAIN bids} :
                    /\ \E i \in DOMAIN bids : bids[i] = Bid(t, a)
                    /\ \E i \in DOMAIN bids : bids[i] = Bid(t, b)})

\* a and b are joined in the auxiliary graph
Joined(a, b) == a # b /\ Together(a, b) >= min_co_bids

\* K cannot be split in two parts with no joined pair across them
Connected(K) ==
    \A part \in SUBSET K :
        (part # {} /\ part # K) =>
            \E a \in part, b \in K \ part : Joined(a, b)

\* the connected components of 3 or more companies of the auxiliary graph
LargeComponents ==
    {K \in SUBSET BiddingCompanies :
        /\ Cardinality(K) >= 3
        /\ Connected(K)
        /\ \A a \in K, b \in BiddingCompanies \ K : ~Joined(a, b)}

\* C9: find_cartel_clusters returns, each once, exactly the connected
\* components of 3 or more companies of the graph that joins two companies
\* when they bid together on at least min_co_bids distinct tenders (one less
\* gives no edge, several bids of a company on a tender count once).
C9_ClustersAreComponents ==
    pc = "find_cartel_clusters" =>
        /\ ret.raised = ""
        /\ Range(ret.value) = LargeComponents
        /\ Len(ret.value) = Cardinality(LargeComponents)

\* a returned cluster holds a pair that bid together exactly min_co_bids
\* times, in a bid list that repeats a bid
C9_Witness ==
    /\ pc = "find_cartel_clusters"
    /\ Len(bids) > Cardinality(Range(bids))
    /\ min_co_bids >= 2
    /\ \E i \in DOMAIN ret.value :
           \E a, b \in ret.value[i] : a # b /\ Together(a, b) = min_co_bids

\* C10 as stated: no cluster returned by find_cartel_clusters holds two
\* companies whose co-bid count is below min_co_bids.
C10_NoPairBelowThreshold ==
    pc = "find_cartel_clusters" =>
        \A i \in DOMAIN ret.value :
            \A a, b \in ret.value[i] : a # b => Together(a, b) >= min_co_bids

\* C10: every company of a returned cluster bid together at least
\* min_co_bids times with another company of the cluster, any two companies
\* of a cluster are linked by a chain of such pairs inside it, and the result
\* is the same for every relationship graph.
C10_ClustersRestOnCoBidsOnly ==
    pc = "find_cartel_clusters" =>
        /\ \A i \in DOMAIN ret.value :
               /\ \A a \in ret.value[i] : \E b \in ret.value[i] : Joined(a, b)
               /\ Connected(ret.value[i])
        /\ \A g \in {GraphOf(<<>>), PlainGraph, RelatedCompaniesGraph} :
               ret.value \in find_cartel_clusters(g, bids, min_co_bids)

\* a cluster holds two companies that bid together fewer than min_co_bids
\* times, the graph having edges between companies
C10_Witness ==
    /\ pc = "find_cartel_clusters"
    /\ graph = RelatedCompaniesGraph
    /\ \E i \in DOMAIN ret.value :
           \E a, b \in ret.value[i] : a # b /\ Together(a, b) < min_co_bids

\* the two identifiers find_conflict_path was called with
PathFrom == tender.awarded_to[1]

PathTo == tender.procurement_officer_id[1]

\* the two nodes are in the graph and some path joins them
Joinable(G, s, t) == Linked(G, s, t, Cardinality(Nodes(G)))

\* C11 as stated: find_conflict_path never raises; it returns the 'no path'
\* value both when the two identifiers are in different connected components
\* and when one of them is no node of the graph.
C11_NoPathIsNeverAnError ==
    pc = "find_conflict_path" =>
        /\ ret.raised = ""
        /\ ~Joinable(graph, PathFrom, PathTo) => ret.value = None

\* the call is made with an identifier that is no node of the graph and
\* ends in NodeNotFound
C11_Witness ==
    /\ pc = "find_conflict_path"
    /\ ~HasNode(graph, PathFrom) \/ ~HasNode(graph, PathTo)
    /\ ret.raised = "NodeNotFound"

\* what holds of C11: with both identifiers nodes of the graph and no path
\* between them the call returns None
C11_DisconnectedGivesNone ==
    (/\ pc = "find_conflict_path"
     /\ HasNode(graph, PathFrom)
     /\ HasNode(graph, PathTo)
     /\ ~Joinable(graph, PathFrom, PathTo)) => ret = Returned(None)

\* C12: when the two nodes are connected, find_conflict_path returns a node
\* sequence that starts at the company id, ends at the official id, has every
\* consecutive pair joined by an edge of the graph and has the least number
\* of edges of all such sequences.
C12_ShortestPath ==
    (pc = "find_conflict_path" /\ Joinable(graph, PathFrom, PathTo)) =>
        /\ ret.raised = ""
        /\ ret.value # None
        /\ IsPath(graph, ret.value[1], PathFrom, PathTo)
        /\ ~Linked(graph, PathFrom, PathTo, Len(ret.value[1]) - 2)

\* a path of 4 edges is returned
C12_Witness ==
    /\ pc = "find_conflict_path"
    /\ ret.value # None
    /\ Len(ret.value[1]) = 5

\* C13 as stated: the path returned for (A, B) is the reverse of the path
\* returned for (B, A), also when several shortest paths exist.
C13_ReversedCallGivesReversedPath ==
    (pc = "find_conflict_path" /\ ret.raised = "" /\ ret.value # None) =>
        find_conflict_path(graph, PathTo, PathFrom)
            = Returned(Some(Reverse(ret.value[1])))

\* the two calls return different shortest paths
C13_Witness ==
    /\ pc = "find_conflict_path"
    /\ ret.raised = ""
    /\ ret.value # None
    /\ find_conflict_path(graph, PathTo, PathFrom).value # None
    /\ find_conflict_path(graph, PathTo, PathFrom).value[1] # Reverse(ret.value[1])
    /\ Len(find_conflict_path(graph, PathTo, PathFrom).value[1]) = Len(ret.value[1])

\* the graph build_procurement_graph returned
Built == ret.value[1]

\* the attributes of the edge between u and v
EdgeData(G, u, v) == G.edge[{u, v}]

HasBid(c, t) ==
    \E i \in DOMAIN bids : bids[i].company_id = c /\ bids[i].tender_id = t

\* the companies joined to tender t by a WON edge
WonBy(G, t) ==
    {c \in Nodes(G) : HasEdge(G, c, t) /\ EdgeData(G, c, t).relationship = "WON"}

\* C14: in the built graph a company and a tender of the maps are adjacent
\* exactly when the bid list holds a bid for the pair; the pair then has one
\* edge however many bids it has, of type WON when the tender's awarded_to is
\* the company and BID_ON otherwise; so a tender has at most one WON edge, and
\* it goes to the awarded company.
C14_OneBidEdgePerPair ==
    pc = "build_procurement_graph" =>
        /\ \A c \in KeySet(companies), t \in KeySet(all_tenders) :
              /\ HasEdge(Built, c, t) <=> HasBid(c, t)
              /\ Cardinality({i \in DOMAIN Built.adj[c] : Built.adj[c][i] = t})
                    = (IF HasBid(c, t) THEN 1 ELSE 0)
              /\ Cardinality({i \in DOMAIN Built.adj[t] : Built.adj[t][i] = c})
                    = (IF HasBid(c, t) THEN 1 ELSE 0)
              /\ HasBid(c, t) =>
                    EdgeData(Built, c, t).relationship
                        = (IF all_tenders.at[t].awarded_to = Some(c)
                           THEN "WON" ELSE "BID_ON")
        /\ \A t \in KeySet(all_tenders) :
              /\ Cardinality(WonBy(Built, t)) <= 1
              /\ \A c \in WonBy(Built, t) : all_tenders.at[t].awarded_to = Some(c)

C14_Witness ==
    /\ pc = "build_procurement_graph"
    /\ Cardinality({i \in DOMAIN bids :
                       bids[i].company_id = "c1" /\ bids[i].tender_id = "t1"}) = 2
    /\ WonBy(Built, "t1") = {"c1"}
    /\ HasEdge(Built, "c2", "t1")
    /\ EdgeData(Built, "c2", "t1").relationship = "BID_ON"

HasEdgeOfType(G, u, v, relationship) ==
    HasEdge(G, u, v) /\ EdgeData(G, u, v).relationship = relationship

SimilarAddresses(c1, c2) ==
    addresses_similar(companies.at[c1].address, companies.at[c2].address)

EqualPhones(c1, c2) ==
    normalize_phone(companies.at[c1].phone) = normalize_phone(companies.at[c2].phone)

\* C15 as stated: every two distinct companies with similar addresses are
\* joined by a SHARES_ADDRESS edge and every two with equal normalized phones
\* by a SHARES_PHONE edge, also when both hold for the pair.
C15_EveryMatchHasItsEdge ==
    pc = "build_procurement_graph" =>
        \A c1, c2 \in KeySet(companies) :
            c1 # c2 =>
                /\ SimilarAddresses(c1, c2)
                      => HasEdgeOfType(Built, c1, c2, "SHARES_ADDRESS")
                /\ EqualPhones(c1, c2)
                      => HasEdgeOfType(Built, c1, c2, "SHARES_PHONE")

\* a pair matching on address and phone is joined by a SHARES_PHONE edge only
C15_Witness ==
    /\ pc = "build_procurement_graph"
    /\ SimilarAddresses("c1", "c2")
    /\ EqualPhones("c1", "c2")
    /\ HasEdgeOfType(Built, "c1", "c2", "SHARES_PHONE")
    /\ ~HasEdgeOfType(Built, "c1", "c2", "SHARES_ADDRESS")

\* what the one edge of a pair of companies shows: SHARES_PHONE when the
\* phones are equal, SHARES_ADDRESS when only the addresses are similar
C15_OneEdgePerMatchingPair ==
    pc = "build_procurement_graph" =>
        \A c1, c2 \in KeySet(companies) :
            c1 # c2 =>
                /\ HasEdge(Built, c1, c2)
                      <=> (SimilarAddresses(c1, c2) \/ EqualPhones(c1, c2))
                /\ HasEdge(Built, c1, c2) =>
                      EdgeData(Built, c1, c2).relationship
                          = (IF EqualPhones(c1, c2) THEN "SHARES_PHONE"
                             ELSE "SHARES_ADDRESS")

\* the two addresses _addresses_similar was called on
Addr1 == companies.at["c1"].address
Addr2 == companies.at["c2"].address

\* the result of the call
Similar == ret.value[1]

\* c is the lower-case letter or its capital
SameLetter(c, lower) ==
    c = lower \/ \E k \in DOMAIN LOWERCASE : LOWERCASE[k] = lower /\ UPPERCASE[k] = c

\* the plot tokens of an address: <<i, j, k>> where the word "plot", in any
\* case, is at i..i+3, only whitespace lies between it and j, and j..k is a
\* longest run of digits
PlotTokens(addr) ==
    {t \in (1..Len(addr)) \X (1..Len(addr)) \X (1..Len(addr)) :
        /\ t[1] + 4 <= t[2] /\ t[2] <= t[3]
        /\ SameLetter(addr[t[1]], "p") /\ SameLetter(addr[t[1] + 1], "l")
        /\ SameLetter(addr[t[1] + 2], "o") /\ SameLetter(addr[t[1] + 3], "t")
        /\ \A m \in (t[1] + 4)..(t[2] - 1) : addr[m] \in Whitespace
        /\ \A m \in t[2]..t[3] : addr[m] \in Digits
        /\ t[3] = Len(addr) \/ addr[t[3] + 1] \notin Digits}

FirstPlotToken(addr) ==
    CHOOSE t \in PlotTokens(addr) : \A u \in PlotTokens(addr) : t[1] <= u[1]

DigitValue(c) == CHOOSE d \in 0..9 : <<"0", "1", "2", "3", "4", "5", "6", "7", "8", "9">>[d + 1] = c

RECURSIVE NumericValue(_)
NumericValue(digits) ==
    IF digits = <<>> THEN 0
    ELSE 10 * NumericValue(SubSeq(digits, 1, Len(digits) - 1))
         + DigitValue(digits[Len(digits)])

\* the numeric value of the plot number of an address that has a plot token
PlotNumber(addr) ==
    NumericValue(SubSeq(addr, FirstPlotToken(addr)[2], FirstPlotToken(addr)[3]))

\* C16 as stated: two addresses are similar exactly when both contain a plot
\* token and the numeric values of the two plot numbers are equal, whatever
\* the written form of the numbers (leading zeros included).
C16_SimilarIffEqualPlotNumbers ==
    pc = "addresses_similar" =>
        (Similar <=> /\ PlotTokens(Addr1) # {}
                     /\ PlotTokens(Addr2) # {}
                     /\ PlotNumber(Addr1) = PlotNumber(Addr2))

\* 'Plot 045, Z' against 'Plot 45, X': equal values, not similar
C16_Witness ==
    /\ pc = "addresses_similar"
    /\ Addr1 = PLOT_045_Z
    /\ Addr2 = PLOT_45_X
    /\ PlotNumber(Addr1) = PlotNumber(Addr2)
    /\ Similar = FALSE

\* the plot numbers compared as written, digit for digit
C16_SimilarIffSameDigits ==
    pc = "addresses_similar" =>
        (Similar <=>
            /\ PlotTokens(Addr1) # {}
            /\ PlotTokens(Addr2) # {}
            /\ SubSeq(Addr1, FirstPlotToken(Addr1)[2], FirstPlotToken(Addr1)[3])
                  = SubSeq(Addr2, FirstPlotToken(Addr2)[2], FirstPlotToken(Addr2)[3]))

\* the address with letter put right after its plot number
WithSuffix(addr, letter) ==
    IF PlotTokens(addr) = {} THEN addr
    ELSE SubSeq(addr, 1, FirstPlotToken(addr)[3]) \o <<letter>>
         \o SubSeq(addr, FirstPlotToken(addr)[3] + 1, Len(addr))

\* the address with the word of its plot token written as word
WithWord(addr, word) ==
    IF PlotTokens(addr) = {} THEN addr
    ELSE SubSeq(addr, 1, FirstPlotToken(addr)[1] - 1) \o word
         \o SubSeq(addr, FirstPlotToken(addr)[1] + 4, Len(addr))

\* C17: address similarity is symmetric; a letter after the plot number and
\* the letter case of the word 'plot' do not change it; 'Plot 45, X' and
\* 'Plot 45B, Y' match, 'Plot 45' and 'Plot 46' do not, and an address
\* without a plot token matches nothing.
C17_SymmetricSuffixAndCaseInsensitive ==
    pc = "addresses_similar" =>
        /\ Similar = addresses_similar(Addr2, Addr1)
        /\ \A letter \in {"A", "b"} :
              /\ Similar = addresses_similar(WithSuffix(Addr1, letter), Addr2)
              /\ Similar = addresses_similar(Addr1, WithSuffix(Addr2, letter))
        /\ \A word \in {<<"P", "L", "O", "T">>, <<"p", "l", "o", "t">>,
                        <<"p", "L", "o", "T">>} :
              /\ Similar = addresses_similar(WithWord(Addr1, word), Addr2)
              /\ Similar = addresses_similar(Addr1, WithWord(Addr2, word))
        /\ (Addr1 = PLOT_45_X /\ Addr2 = PLOT_45B_Y) => Similar
        /\ (Addr1 = PLOT_45_X /\ Addr2 = PLOT_46) => ~Similar
        /\ (Addr1 = UPPER_PLOT45A /\ Addr2 = PLOT_45B_Y) => Similar
        /\ (PlotTokens(Addr1) = {} \/ PlotTokens(Addr2) = {}) => ~Similar

C17_Witness ==
    /\ pc = "addresses_similar"
    /\ Addr1 = PLOT_45_X
    /\ Addr2 = PLOT_45B_Y
    /\ Similar = TRUE
    /\ addresses_similar(Addr2, Addr1)

SuspiciousTypes == {"RELATED_TO", "SHARES_ADDRESS", "SHARES_PHONE"}

PlainTypes == {"DIRECTOR_OF", "BID_ON", "WON", "AWARDED_BY"}

\* the edge types of a graph
TypesIn(G) == {G.edge[p].relationship : p \in DOMAIN G.edge}

\* C18: in every built graph each RELATED_TO, SHARES_ADDRESS and
\* SHARES_PHONE edge has suspicious = true, and each DIRECTOR_OF, BID_ON, WON
\* and AWARDED_BY edge has suspicious = false.
C18_SuspiciousFollowsType ==
    pc = "build_procurement_graph" =>
        \A p \in DOMAIN Built.edge :
            /\ Built.edge[p].relationship \in SuspiciousTypes \cup PlainTypes
            /\ Built.edge[p].suspicious
                  <=> Built.edge[p].relationship \in SuspiciousTypes

\* a graph with an edge of each of the seven types
C18_Witness ==
    /\ pc = "build_procurement_graph"
    /\ TypesIn(Built) = SuspiciousTypes \cup PlainTypes

\* the keys of the four maps
KnownIds ==
    KeySet(companies) \cup KeySet(directors) \cup KeySet(officials)
    \cup KeySet(all_tenders)

\* C19: the build never fails; a reference to an id that is no key of its
\* map produces no edge and no node: the nodes of the result are the keys of
\* the four maps and every edge joins two of them, while the references to
\* known ids do get their edges.
C19_DanglingReferencesAreSkipped ==
    pc = "build_procurement_graph" =>
        /\ ret.raised = ""
        /\ Nodes(Built) = KnownIds
        /\ \A p \in DOMAIN Built.edge : p \subseteq KnownIds
        /\ \A d \in KeySet(directors), c \in KeySet(companies) :
              HasEdge(Built, d, c) <=> c \in Range(directors.at[d].company_ids)
        /\ \A o \in KeySet(officials), d \in KeySet(directors) :
              HasEdge(Built, o, d) <=> d \in KeySet(officials.at[o].related_persons)
        /\ \A t \in KeySet(all_tenders), o \in KeySet(officials) :
              HasEdge(Built, t, o)
                  <=> all_tenders.at[t].procurement_officer_id = Some(o)

\* a build with a dangling reference of each of the four kinds
C19_Witness ==
    /\ pc = "build_procurement_graph"
    /\ ret.raised = ""
    /\ UnknownCompany \in Range(directors.at["d1"].company_ids)
    /\ "d9" \in KeySet(officials.at["o1"].related_persons)
    /\ tender.procurement_officer_id = Some(UnknownOfficial)
    /\ \E i \in DOMAIN bids : bids[i].company_id = UnknownCompany
    /\ \E i \in DOMAIN bids : bids[i].tender_id = "t9"
    /\ HasEdge(Built, "d1", "c1")

\* C20 as stated: compute_risk_score always returns a RiskScore and never
\* aborts with an error, whatever ids the tender names and whether or not
\* the maps and the graph hold them.
C20_NeverAborts ==
    pc = "compute_risk_score" => ret.raised = "" /\ ret.value # None

\* winner and official are in the maps, no director of the winner is a
\* related person, and one of the two is no node of the graph
C20_Witness ==
    /\ pc = "compute_risk_score"
    /\ WinnerAndOfficialPresent
    /\ DirectMatches = {}
    /\ (~HasNode(graph, tender.awarded_to[1])
        \/ ~HasNode(graph, tender.procurement_officer_id[1]))
    /\ ret.raised = "NodeNotFound"

\* the factors of the given type in a score
FactorsOfType(score, type) == SelectSeq(score.factors, LAMBDA f : f.type = type)

\* the sentences a recommendation is joined from: the advice of the factors
\* in their order, once each, and the two escalation sentences when HIGH
RecommendationParts(factors_, category_) ==
    LET advice == [i \in DOMAIN factors_ |-> Sentence(factors_[i].type)]
        all == IF category_ = HIGH
               THEN advice \o <<"Escalate to Internal Audit for immediate review",
                                "Consider freezing payment pending investigation">>
               ELSE advice
    IN [k \in 1..Cardinality({i \in DOMAIN all : \A j \in 1..(i - 1) : all[j] # all[i]}) |->
           all[CHOOSE i \in DOMAIN all :
                   /\ \A j \in 1..(i - 1) : all[j] # all[i]
                   /\ Cardinality({h \in 1..i : \A j \in 1..(h - 1) : all[j] # all[h]}) = k]]

\* C22: a tender awarded to a company registered 4 days before the deadline,
\* with awarded amount equal to the estimated value and published 5 days
\* before the deadline, gets from compute_risk_score a shell-company factor of
\* weight 20, a rushed-timeline factor of weight 10 and no price-anomaly
\* factor; overall is at least 30, the category is MEDIUM or HIGH, and the
\* recommendation contains the shell-company and the rushed-timeline advice.
C22_NewCompanyRushedTender ==
    (/\ pc = "compute_risk_score"
     /\ ret.raised = ""
     /\ Winner # None
     /\ tender.deadline - Winner[1].registration_date = 4
     /\ tender.awarded_amount = Some(tender.estimated_value)
     /\ tender.deadline - tender.published_date = 5) =>
        /\ Len(FactorsOfType(Score, SHELL_COMPANY)) = 1
        /\ FactorsOfType(Score, SHELL_COMPANY)[1].weight = 20
        /\ Len(FactorsOfType(Score, RUSHED_TIMELINE)) = 1
        /\ FactorsOfType(Score, RUSHED_TIMELINE)[1].weight = 10
        /\ FactorsOfType(Score, PRICE_ANOMALY) = <<>>
        /\ Score.overall >= 30
        /\ Score.category \in {MEDIUM, HIGH}
        /\ Score.recommendation
              = Join(SEPARATOR, RecommendationParts(Score.factors, Score.category))
        /\ {"Verify company credentials and track record",
            "Review justification for expedited timeline"}
              \subseteq Range(RecommendationParts(Score.factors, Score.category))

\* such a tender with no other factor: overall 30, MEDIUM
C22_Witness ==
    /\ pc = "compute_risk_score"
    /\ ret.raised = ""
    /\ Winner # None
    /\ tender.deadline - Winner[1].registration_date = 4
    /\ tender.awarded_amount = Some(tender.estimated_value)
    /\ tender.deadline - tender.published_date = 5
    /\ Score.overall = 30
    /\ Score.category = MEDIUM
    /\ Len(Score.factors) = 2

\* the other tenders check_price_anomaly compares with: same category, status
\* awarded, an awarded amount
OtherAwarded ==
    SelectSeq(Values(all_tenders),
              LAMBDA t : /\ t.id # tender.id
                         /\ t.category = tender.category
                         /\ t.status = "AWARDED"
                         /\ t.awarded_amount # None /\ t.awarded_amount[1] # 0)

\* C25 as stated: whenever check_price_anomaly emits a factor and another
\* awarded tender of the category exists, the evidence holds the note on the
\* category's average awarded amount, and the weight is 15.
C25_AverageNoteWheneverComparable ==
    (pc = "check_price_anomaly" /\ ret.value # None /\ OtherAwarded # <<>>) =>
        /\ Factor.evidence.category_average # None
        /\ Factor.weight = 15

\* a factor without the note although another awarded tender of the category
\* exists
C25_Witness ==
    /\ pc = "check_price_anomaly"
    /\ ret.value # None
    /\ OtherAwarded # <<>>
    /\ Factor.evidence.category_average = None
    /\ Factor.weight = 15

\* the note is there exactly when the awarded amount exceeds one and a half
\* times the average of the other awarded tenders, and the weight is 15 always
C25_NoteOnlyAboveAverage ==
    (pc = "check_price_anomaly" /\ ret.value # None) =>
        /\ Factor.weight = 15
        /\ Factor.evidence.category_average # None
              <=> /\ OtherAwarded # <<>>
                  /\ 2 * Len(OtherAwarded) * tender.awarded_amount[1]
                        > 3 * SumAwarded(OtherAwarded)

\* the position of a rule in compute_risk_score
RuleOrder(type) ==
    CASE type = CONFLICT_OF_INTEREST -> 1
      [] type = CARTEL_PATTERN -> 2
      [] type = SHELL_COMPANY -> 3
      [] type = PRICE_ANOMALY -> 4
      [] type = RUSHED_TIMELINE -> 5

\* the weights a rule can give
RuleWeights(type) ==
    CASE type = CONFLICT_OF_INTEREST -> {20, 30}
      [] type = CARTEL_PATTERN -> {25}
      [] type = SHELL_COMPANY -> {10, 20}
      [] type = PRICE_ANOMALY -> {15}
      [] type = RUSHED_TIMELINE -> {5, 10}

\* C29: compute_risk_score emits at most one factor per rule, in the order
\* conflict, cartel, shell, price, timeline, with weights in {20, 30}, {25},
\* {10, 20}, {15}, {5, 10}; the sum of the weights is at most 100 and overall
\* is the exact sum: the cap never changes a score.
C29_CapNeverBinds ==
    (pc = "compute_risk_score" /\ ret.raised = "") =>
        /\ \A i, j \in DOMAIN Score.factors :
              i < j => RuleOrder(Score.factors[i].type) < RuleOrder(Score.factors[j].type)
        /\ \A i \in DOMAIN Score.factors :
              Score.factors[i].weight \in RuleWeights(Score.factors[i].type)
        /\ WeightTotal(Score.factors, Len(Score.factors)) <= 100
        /\ Score.overall = WeightTotal(Score.factors, Len(Score.factors))

\* the five heaviest factors together: 30 + 25 + 20 + 15 + 10
C29_Witness ==
    /\ pc = "compute_risk_score"
    /\ ret.raised = ""
    /\ [i \in DOMAIN Score.factors |-> Score.factors[i].weight]
          = <<30, 25, 20, 15, 10>>
    /\ Score.overall = WeightTotal(Score.factors, 5)

\* C30: a tender with no awarded company and no awarded amount gets only
\* cartel-pattern and rushed-timeline factors; its overall is at most 35 and
\* its category is never HIGH, whatever the bids, clusters and graph.
C30_UnawardedTenderIsNeverHigh ==
    (/\ pc = "compute_risk_score"
     /\ tender.awarded_to = None
     /\ tender.awarded_amount = None) =>
        /\ ret.raised = ""
        /\ \A i \in DOMAIN Score.factors :
              Score.factors[i].type \in {CARTEL_PATTERN, RUSHED_TIMELINE}
        /\ Score.overall <= 35
        /\ Score.category # HIGH

\* an unawarded tender with both factors: overall 35, MEDIUM
C30_Witness ==
    /\ pc = "compute_risk_score"
    /\ tender.awarded_to = None
    /\ tender.awarded_amount = None
    /\ ret.raised = ""
    /\ Score.overall = 35
    /\ Score.category = MEDIUM

\* the types of a factor list, each once, in the order of first appearance
KindsPresent(fs) ==
    LET present == {fs[i].type : i \in DOMAIN fs}
        first(t) == CHOOSE i \in DOMAIN fs :
                        fs[i].type = t /\ \A j \in 1..(i - 1) : fs[j].type # t
    IN CHOOSE k \in [1..Cardinality(present) -> present] :
           \A i, j \in DOMAIN k : i < j => first(k[i]) < first(k[j])

\* C21: generate_recommendation returns the fixed "no action" message for
\* LOW; otherwise the advisory sentences of the factor kinds present, one per
\* kind in the order the kinds first appear, followed by the two escalation
\* sentences exactly when the category is HIGH, joined by the separator.
C21_RecommendationText ==
    pc = "generate_recommendation" =>
        /\ ret.raised = ""
        /\ ret.value[1] =
             IF risk_category = LOW
             THEN "No immediate action required. Routine monitoring recommended."
             ELSE Join(SEPARATOR,
                       [i \in DOMAIN KindsPresent(risk_factors) |->
                           Sentence(KindsPresent(risk_factors)[i])]
                       \o IF risk_category = HIGH
                          THEN <<"Escalate to Internal Audit for immediate review",
                                 "Consider freezing payment pending investigation">>
                          ELSE <<>>)

\* a HIGH call on three factors of which the first and the last are of one
\* kind and the second of another
C21_Witness ==
    /\ pc = "generate_recommendation"
    /\ risk_category = HIGH
    /\ Len(risk_factors) = 3
    /\ risk_factors[1].type = SHELL_COMPANY
    /\ risk_factors[2].type = CONFLICT_OF_INTEREST
    /\ risk_factors[3].type = SHELL_COMPANY
    /\ ret.value[1] =
         "Verify company credentials and track record" \o SEPARATOR
         \o "Request conflict of interest declarations from all parties"
         \o SEPARATOR \o "Escalate to Internal Audit for immediate review"
         \o SEPARATOR \o "Consider freezing payment pending investigation"

\* C23: compute_all_risk_scores returns a map with one entry per tender id,
\* each entry the result of compute_risk_score on that tender with one and the
\* same list of clusters, found once at the default threshold of 3; visiting
\* the tenders in any other order gives the same map.
C23_OneEntryPerTenderAnyOrder ==
    (pc = "compute_all_risk_scores" /\ ret.raised = "") =>
        /\ Keys(ret.value[1]) = Keys(all_tenders)
        /\ \E clusters \in find_cartel_clusters(graph, bids, 3) :
              /\ \A t \in KeySet(all_tenders) :
                    compute_risk_score(all_tenders.at[t], companies, directors,
                                       officials, bids, graph, clusters,
                                       all_tenders)
                        = Returned(Some(ret.value[1].at[t]))
              /\ \A order \in Orderings(KeySet(all_tenders)) :
                    LET call == ScoreEach(order, EmptyDict, all_tenders,
                                          companies, directors, officials,
                                          bids, graph, clusters)
                    IN /\ call.raised = ""
                       /\ call.value[1].at = ret.value[1].at

\* a returned map of four tenders scored against two clusters, in which the
\* tender t1 carries a cartel factor
C23_Witness ==
    /\ pc = "compute_all_risk_scores"
    /\ ret.raised = ""
    /\ Keys(ret.value[1]) = <<"t1", "t2", "t3", "t4">>
    /\ \E clusters \in find_cartel_clusters(graph, bids, 3) : Len(clusters) = 2
    /\ \E i \in DOMAIN ret.value[1].at["t1"].factors :
          ret.value[1].at["t1"].factors[i].type = CARTEL_PATTERN

\* C24: build_procurement_graph, find_cartel_clusters, compute_risk_score and
\* compute_all_risk_scores leave the company, director, official and tender
\* maps and the bid list as they were before the call; compute_risk_score and
\* compute_all_risk_scores also leave the graph and the cluster list so.
C24_InputsUnchanged ==
    [][/\ pc' \in {"build_procurement_graph", "find_cartel_clusters",
                   "compute_risk_score", "compute_all_risk_scores"}
           => /\ companies' = companies
              /\ directors' = directors
              /\ officials' = officials
              /\ all_tenders' = all_tenders
              /\ tender' = tender
              /\ bids' = bids
       /\ pc' \in {"compute_risk_score", "compute_all_risk_scores"}
           => /\ graph' = graph
              /\ cartel_clusters' = cartel_clusters]_vars

\* compute_all_risk_scores has returned a map for a dataset with bids, a
\* built graph of edges and a cluster
C24_Witness ==
    /\ pc = "compute_all_risk_scores"
    /\ ret.raised = ""
    /\ Len(bids) >= 9
    /\ Keys(ret.value[1]) = Keys(all_tenders)
    /\ find_cartel_clusters(graph, bids, DEFAULT_MIN_CO_BIDS) # {<<>>}
    /\ \E c \in KeySet(companies), t \in KeySet(all_tenders) : HasEdge(graph, c, t)

\* the awarded company of the tender is in the company map and bid on the
\* tender, the officer is in the official map, and the graph is the one
\* build_procurement_graph makes of the same data
WinnerBidOnBuiltGraph ==
    /\ WinnerAndOfficialPresent
    /\ tender.id \in KeySet(all_tenders)
    /\ all_tenders.at[tender.id] = tender
    /\ HasBid(tender.awarded_to[1], tender.id)
    /\ graph = build_procurement_graph(all_tenders, companies, directors,
                                       officials, bids)

\* C28: on a graph built from the same data, check_conflict_of_interest gives
\* a conflict-of-interest factor of weight 20 or 30 for every tender whose
\* awarded company is in the company map and bid on it and whose officer is in
\* the official map; when no director of the winner is a related person of
\* the official the factor is the path one, of weight 20, over at most 2 hops.
C28_WinnerAlwaysLinkedToOfficer ==
    (pc = "check_conflict_of_interest" /\ WinnerBidOnBuiltGraph) =>
        /\ ret.raised = ""
        /\ ret.value # None
        /\ Factor.type = CONFLICT_OF_INTEREST
        /\ Factor.weight \in {20, 30}
        /\ DirectMatches = {} =>
              /\ Factor.weight = 20
              /\ Factor.evidence.path_length <= 2
              /\ IsPath(graph, Factor.evidence.path, tender.awarded_to[1],
                        tender.procurement_officer_id[1])

\* the official is related to nobody and the one route from the winner to the
\* officer is the tender itself
C28_Witness ==
    /\ pc = "check_conflict_of_interest"
    /\ WinnerBidOnBuiltGraph
    /\ officials.at["o1"].related_persons = EmptyDict
    /\ Factor.weight = 20
    /\ Factor.evidence.path = <<"c1", "t1", "o1">>

\* the category the comment above each tender of the dataset states
AnnotatedCategory ==
    [t \in {"tender-001", "tender-002", "tender-003", "tender-005"} |-> HIGH]
    @@ [t \in {"tender-004", "tender-008", "tender-011", "tender-014",
               "tender-015"} |-> MEDIUM]
    @@ [t \in {"tender-006", "tender-007", "tender-009", "tender-010",
               "tender-012", "tender-013", "tender-016", "tender-017",
               "tender-019", "tender-020"} |-> LOW]

\* lifespan has stored the scores of the dataset
ScoresStored == pc \notin {"import", "loaded", "built", "failed"}

\* C26: on the dataset of the repository, graph building followed by
\* compute_all_risk_scores gives every tender the category its annotation
\* states.
C26_CategoriesMatchAnnotations ==
    ScoresStored =>
        \A t \in DOMAIN AnnotatedCategory :
            RISK_SCORES.at[t].category = AnnotatedCategory[t]

\* the scores are stored and four tenders are a category below their
\* annotation
C26_Witness ==
    /\ ScoresStored
    /\ KeySet(RISK_SCORES) = KeySet(get_data_store.at.tenders)
    /\ RISK_SCORES.at["tender-001"].overall = 45
    /\ RISK_SCORES.at["tender-001"].category = MEDIUM
    /\ RISK_SCORES.at["tender-003"].overall = 30
    /\ RISK_SCORES.at["tender-003"].category = MEDIUM
    /\ RISK_SCORES.at["tender-005"].overall = 35
    /\ RISK_SCORES.at["tender-005"].category = MEDIUM
    /\ RISK_SCORES.at["tender-014"].overall = 10
    /\ RISK_SCORES.at["tender-014"].category = LOW

\* what holds instead: the stored category is the annotated one for every
\* tender but tender-001, tender-003, tender-005 and tender-014
C26_AnnotationsMetButForFour ==
    ScoresStored =>
        \A t \in DOMAIN AnnotatedCategory :
            (RISK_SCORES.at[t].category = AnnotatedCategory[t])
                <=> t \notin {"tender-001", "tender-003", "tender-005",
                              "tender-014"}

\* the graph and the scores of the one dataset get_data_store returns
SnapshotGraph ==
    build_procurement_graph(get_data_store.at.tenders, get_data_store.at.companies,
                            get_data_store.at.directors, get_data_store.at.officials,
                            get_data_store.at.bids)

SnapshotScores ==
    {outcome.value[1] :
        outcome \in compute_all_risk_scores(
                        get_data_store.at.tenders, get_data_store.at.companies,
                        get_data_store.at.directors, get_data_store.at.officials,
                        get_data_store.at.bids, SnapshotGraph)}

SnapshotClusters ==
    {Range(clusters) :
        clusters \in find_cartel_clusters(SnapshotGraph, get_data_store.at.bids,
                                          DEFAULT_MIN_CO_BIDS)}

\* a request has been answered
Served == ret # Returned(None)

\* C27: whenever a request has been answered, the globals it read are
\* complete and of one snapshot: the data store is the loaded dataset, the
\* graph is the graph built from it, the scores are the scores computed from
\* that data and graph, every tender node carries the category of its stored
\* score, and the clusters served are the clusters of that data.
C27_ReadersSeeOneSnapshot ==
    Served =>
        /\ DATA_STORE = get_data_store
        /\ GRAPH # None
        /\ RISK_SCORES \in SnapshotScores
        /\ GRAPH[1] = [SnapshotGraph EXCEPT !.risk_level =
                           [t \in KeySet(RISK_SCORES) |-> RISK_SCORES.at[t].category]]
        /\ pc = "get_cartel_clusters" =>
              /\ ret.raised = ""
              /\ {ret.value[1].cartels[i].company_ids :
                     i \in DOMAIN ret.value[1].cartels} \in SnapshotClusters
        /\ pc = "get_full_graph" =>
              /\ ret.raised = ""
              /\ \A t \in KeySet(RISK_SCORES) :
                    [id |-> t, type |-> "TENDER",
                     risk_level |-> Some(RISK_SCORES.at[t].category)]
                        \in ret.value[1].nodes

\* the full graph has been served with the tender-002 node at risk level
\* HIGH, the category of its stored score
C27_Witness ==
    /\ pc = "get_full_graph"
    /\ ret.raised = ""
    /\ RISK_SCORES.at["tender-002"].category = HIGH
    /\ [id |-> "tender-002", type |-> "TENDER", risk_level |-> Some(HIGH)]
           \in ret.value[1].nodes
    /\ Cardinality(ret.value[1].nodes) = Len(GRAPH[1].nodes)

============================================================================
